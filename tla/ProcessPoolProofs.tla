------------------------- MODULE ProcessPoolProofs -------------------------
(***************************************************************************)
(* Proofs about ProcessPool, for any number of children and any clients.   *)
(***************************************************************************)
EXTENDS ProcessPool, FiniteSetTheorems, SequenceTheorems, WellFoundedInduction, TLAPS

\* An edge of a living child's pipe, seen or not, stands for a notification of
\* its own.
EdgesBacked ==
    \A i \in Children : Lives(i) =>
        (IF pipeEdge[i] THEN 1 ELSE 0) + (IF "pipe" \in events[i] THEN 1 ELSE 0)
        <= pipe[i]

\* A process that waits has nothing left of its last batch.
NoStaleBatch == \A p \in Processes : pc[p] = "wait" => events[p] = {}

\* NotificationsBacked, with an edge the parent has not seen and the event of
\* the one before it counted apart.
Backed ==
    /\ IsFiniteSet(InPipes)
    /\ (IF edge THEN 1 ELSE 0) + (IF "listen" \in events[Parent] THEN 1 ELSE 0)
       + Cardinality(InPipes) <= Len(backlog)

\* The parent has waited for the children it has marked, and stops only when it
\* has marked all of them.
Marked ==
    /\ \A i \in Children \ m_pid : pc[i] = "reaped"
    /\ m_stop[Parent] \/ pc[Parent] = "exited" => m_pid = {}

\* The inductive invariant.
CgiInv == TypeOK /\ EdgesBacked /\ NoStaleBatch /\ Backed /\ Marked

\* The parent is not one of its children.
LEMMA Kin ==
    /\ Parent \notin Children /\ Parent \in Processes
    /\ Children \subseteq Processes /\ 0 \in Children
    /\ \A p \in Processes : p \in Children \/ p = Parent
BY ProcessPoolAssumption DEF Parent, Children, Processes

\* A set of natural numbers that is not empty has a least one.
LEMMA Least ==
    ASSUME NEW T, T \subseteq Nat, T # {}
    PROVE  \E x \in T : \A y \in T : x <= y
<1> DEFINE R == OpToRel(<, Nat)
<1>1. IsWellFoundedOn(R, Nat)
  BY NatLessThanWellFounded, Zenon
<1>2. \A x, y \in Nat : x < y => <<x, y>> \in R
  BY Zenon DEF OpToRel
<1> HIDE DEF R
<1>3. PICK x \in T : \A y \in T : ~ (<<y, x>> \in R)
  BY <1>1, WFMin, Zenon
<1>4. \A y \in T : ~(y < x)
  BY <1>2, <1>3
<1> QED
  BY <1>3, <1>4

\* The remainder of the parent's counter: it wraps around once.
LEMMA CounterWraps ==
    ASSUME NEW x \in Int, 0 <= x, x < 2 * m_process_number
    PROVE  /\ x % m_process_number =
                IF x < m_process_number THEN x ELSE x - m_process_number
           /\ x % m_process_number \in Children
<1>1. x % m_process_number =
        IF x < m_process_number THEN x ELSE x - m_process_number
  BY ProcessPoolAssumption
<1> QED
  BY <1>1, ProcessPoolAssumption DEF Children

\* As long as a child is left the parent finds one, which it has not marked.
LEMMA NextChildLeft ==
    ASSUME TypeOK, m_pid # {} PROVE NextChild \in m_pid /\ NextChild \in Children
<1> DEFINE j(n) == (sub_process_counter + n) % m_process_number
           Hits == {n \in Children : j(n) \in m_pid}
           Is(k) == \E n \in Children : /\ k = j(n) /\ k \in m_pid
                                        /\ \A m \in 0..(n - 1) : j(m) \notin m_pid
<1>1. /\ m_pid \subseteq Children /\ sub_process_counter \in Children
      /\ m_process_number \in Nat \ {0}
  BY ProcessPoolAssumption DEF TypeOK
<1>2. \A n \in Children : j(n) \in Children
  <2> SUFFICES ASSUME NEW n \in Children PROVE j(n) \in Children
    OBVIOUS
  <2>1. /\ sub_process_counter + n \in Int /\ 0 <= sub_process_counter + n
        /\ sub_process_counter + n < 2 * m_process_number
    BY <1>1 DEF Children
  <2> QED
    BY <2>1, CounterWraps
<1>3. Hits # {}
  <2>1. PICK x : x \in m_pid
    OBVIOUS
  <2> DEFINE c == sub_process_counter
             n == IF x >= c THEN x - c ELSE x - c + m_process_number
  <2>2. /\ x \in Children /\ c \in Children
    BY <2>1, <1>1
  <2>3. /\ n \in Children /\ c + n \in Int /\ 0 <= c + n
        /\ c + n < 2 * m_process_number
        /\ c + n = x \/ c + n = x + m_process_number
        /\ x \in Int /\ 0 <= x /\ x < m_process_number
    BY <2>2, <1>1 DEF Children
  <2>4. \A y \in Int : 0 <= y /\ y < 2 * m_process_number =>
          y % m_process_number =
             IF y < m_process_number THEN y ELSE y - m_process_number
    BY CounterWraps
  <2> HIDE DEF n
  <2>5. (c + n) % m_process_number = x
    BY <2>3, <2>4, <1>1
  <2> QED
    BY <2>1, <2>3, <2>5
<1>4. PICK n \in Hits : \A m \in Hits : n <= m
  <2>1. Hits \subseteq Nat
    BY DEF Children
  <2> HIDE DEF Hits
  <2> QED
    BY <1>3, <2>1, Least
<1>5. \A m \in 0..(n - 1) : j(m) \notin m_pid
  BY <1>4, <1>1 DEF Children
<1>6. Is(j(n)) /\ j(n) \in Children
  BY <1>4, <1>5, <1>2
<1>7. NextChild = CHOOSE k \in Children : Is(k)
  BY DEF NextChild
<1> HIDE DEF j
<1>8. \E k \in Children : Is(k)
  BY <1>6
<1>9. NextChild \in Children /\ Is(NextChild)
  BY <1>7, <1>8
<1> QED
  BY <1>9

\* A process handles one event and keeps the others.
LEMMA Handled ==
    ASSUME TypeOK, NEW p \in Processes, NEW e, Handling(p, e)
    PROVE  /\ events' \in [Processes -> SUBSET ({"signal", "listen", "pipe"} \cup Conns)]
           /\ events'[p] = events[p] \ {e} /\ e \in events[p]
           /\ \A q \in Processes \ {p} : events'[q] = events[q]
           /\ pc[p] = "batch"
BY DEF Handling, TypeOK

\* What is in the pipes, one by one, whatever the numbers f in them.
Tokens(f) == UNION {{i} \X (1..f[i]) : i \in Children}

LEMMA TokensAre ==
    ASSUME NEW f
    PROVE  /\ \A i, k : <<i, k>> \in Tokens(f) <=> i \in Children /\ k \in 1..f[i]
           /\ \A x \in Tokens(f) : \E i \in Children : \E k \in 1..f[i] : x = <<i, k>>
<1>1. ASSUME NEW i, NEW k
      PROVE  <<i, k>> \in Tokens(f) <=> i \in Children /\ k \in 1..f[i]
  <2>1. ASSUME i \in Children, k \in 1..f[i] PROVE <<i, k>> \in Tokens(f)
    <3>1. <<i, k>> \in {i} \X (1..f[i])
      BY <2>1
    <3> QED
      BY <2>1, <3>1 DEF Tokens
  <2>2. ASSUME <<i, k>> \in Tokens(f) PROVE i \in Children /\ k \in 1..f[i]
    <3>1. PICK n \in Children : <<i, k>> \in {n} \X (1..f[n])
      BY <2>2 DEF Tokens
    <3>2. i = n /\ k \in 1..f[n]
      BY <3>1
    <3> QED
      BY <3>2
  <2> QED
    BY <2>1, <2>2
<1>2. \A x \in Tokens(f) : \E i \in Children : \E k \in 1..f[i] : x = <<i, k>>
  BY DEF Tokens
<1> QED
  BY <1>1, <1>2

\* Tokens(g) is Tokens(f) without those that g does not count.
LEMMA TokensFewer ==
    ASSUME NEW f, NEW g, \A i \in Children : \A k : k \in 1..g[i] => k \in 1..f[i]
    PROVE  Tokens(g) \subseteq Tokens(f)
BY TokensAre

\* One more in the pipe of c.
LEMMA OneMore ==
    ASSUME NEW f, NEW g, NEW c \in Children, f[c] \in Nat, g[c] = f[c] + 1,
           \A i \in Children \ {c} : g[i] = f[i],
           IsFiniteSet(Tokens(f))
    PROVE  /\ IsFiniteSet(Tokens(g))
           /\ Cardinality(Tokens(g)) = Cardinality(Tokens(f)) + 1
<1> DEFINE n == f[c] + 1
           t == <<c, n>>
<1>1. \A i \in Children : \A k : k \in 1..g[i] <=> k \in 1..f[i] \/ <<i, k>> = t
  <2> SUFFICES ASSUME NEW i \in Children, NEW k
               PROVE  k \in 1..g[i] <=> k \in 1..f[i] \/ <<i, k>> = t
    OBVIOUS
  <2>1. CASE i # c
    BY <2>1
  <2>2. CASE i = c
    <3>1. k \in 1..n <=> k \in 1..f[c] \/ k = n
      OBVIOUS
    <3> QED
      BY <2>2, <3>1
  <2> QED
    BY <2>1, <2>2
<1>2. t \notin Tokens(f) /\ t \in Tokens(g)
  <2>1. n \notin 1..f[c] /\ n \in 1..g[c]
    OBVIOUS
  <2> QED
    BY <2>1, TokensAre
<1> HIDE DEF t
<1>3. Tokens(g) = Tokens(f) \cup {t}
  BY <1>1, <1>2, TokensAre
<1> QED
  BY <1>2, <1>3, FS_AddElement

\* The invariant holds in the beginning.
LEMMA CgiInitially == ASSUME Init PROVE CgiInv
<1>1. TypeOK
  <2>1. /\ sub_process_counter \in Children /\ edge \in BOOLEAN
        /\ pipeEdge \in [Children -> BOOLEAN]
    BY Kin DEF Init
  <2>2. m_stop \in [Processes -> BOOLEAN]
    BY DEF Init
  <2> QED
    BY <2>1, <2>2 DEF Init, TypeOK, LineStates
<1>2. InPipes = {}
  <2>1. InPipes = Tokens(pipe)
    BY DEF InPipes, Tokens
  <2>2. \A i \in Children : pipe[i] = 0
    BY DEF Init
  <2> QED
    BY <2>1, <2>2, TokensAre
<1>3. Backed
  <2>1. ~edge /\ "listen" \notin events[Parent] /\ Len(backlog) = 0
    BY Kin DEF Init
  <2> QED
    BY <1>2, <2>1, FS_EmptySet DEF Backed
<1>4. EdgesBacked
  BY Kin DEF Init, EdgesBacked
<1>5. NoStaleBatch /\ Marked
  BY Kin DEF Init, NoStaleBatch, Marked
<1> QED
  BY <1>1, <1>3, <1>4, <1>5 DEF CgiInv

\* Clients, signals and the end of a process keep the types.
LEMMA TypesAround ==
    ASSUME TypeOK,
           \/ \E c \in Conns : Connect(c) \/ Send(c)
           \/ \E p \in Processes : SigTerm(p) \/ Exits(p)
    PROVE  TypeOK'
<1> USE DEF TypeOK
<1>1. ASSUME NEW c \in Conns, Connect(c) PROVE TypeOK'
  <2>1. backlog' \in Seq(Conns) /\ edge' \in BOOLEAN
    BY <1>1 DEF Connect
  <2> QED
    BY <1>1, <2>1 DEF Connect, pipeVars, poolVars
<1>2. ASSUME NEW c \in Conns, Send(c) PROVE TypeOK'
  <2>1. line' \in [Conns -> LineStates]
    <3>1. PICK l : /\ line' = [line EXCEPT ![c] = l]
                   /\ l \in CASE line[c] \in {"none", "kept"}
                                   -> {"part", "cr", "whole"}
                              [] line[c] = "part" -> {"cr", "whole"}
                              [] line[c] = "cr" -> {"whole"}
                              [] line[c] = "keptCR" -> {"lf"}
                              [] OTHER -> {}
      BY <1>2 DEF Send
    <3>2. l \in LineStates
      BY <3>1 DEF LineStates
    <3> QED
      BY <3>1, <3>2
  <2> QED
    BY <1>2, <2>1 DEF Send, pipeVars, poolVars
<1>3. ASSUME NEW p \in Processes, SigTerm(p) PROVE TypeOK'
  <2>1. sigs' \in [Processes -> SUBSET {"SIGCHLD", "SIGTERM"}]
    BY <1>3 DEF SigTerm, Signal
  <2> QED
    BY <1>3, <2>1 DEF SigTerm, netVars, pipeVars, poolVars
<1>4. ASSUME NEW p \in Processes, Exits(p) PROVE TypeOK'
  <2>1. sigs' \in [Processes -> SUBSET {"SIGCHLD", "SIGTERM"}]
    BY <1>4 DEF Exits, Signal
  <2>2. /\ line' \in [Conns -> LineStates]
        /\ pipe' \in [Children -> Nat] /\ users' \in [Children -> SUBSET Conns]
        /\ pc' \in [Processes -> {"wait", "batch", "exited", "reaped"}]
    BY <1>4 DEF Exits, LineStates
  <2> QED
    BY <1>4, <2>1, <2>2 DEF Exits, poolVars
<1> QED
  BY <1>1, <1>2, <1>3, <1>4

\* So do the loops of both kinds of processes.
LEMMA TypesLoop ==
    ASSUME TypeOK, NEW p \in Processes, epoll_wait(p) \/ BatchEnds(p)
    PROVE  TypeOK'
<1>1. ASSUME epoll_wait(p) PROVE TypeOK'
  <2>1. Ready(p) \in SUBSET ({"signal", "listen", "pipe"} \cup Conns)
    <3>1. CASE p = Parent
      BY <3>1 DEF Ready
    <3>2. CASE p \in Children
      BY <3>2, Kin DEF Ready, TypeOK
    <3> QED
      BY <3>1, <3>2, Kin
  <2>2. events' \in [Processes -> SUBSET ({"signal", "listen", "pipe"} \cup Conns)]
    BY <1>1, <2>1 DEF epoll_wait, TypeOK
  <2>3. edge' \in BOOLEAN /\ pipeEdge' \in [Children -> BOOLEAN]
    BY <1>1, Zenon DEF epoll_wait
  <2>4. pc' \in [Processes -> {"wait", "batch", "exited", "reaped"}]
    BY <1>1 DEF epoll_wait, TypeOK
  <2> QED
    BY <1>1, <2>2, <2>3, <2>4 DEF epoll_wait, TypeOK, poolVars
<1>2. ASSUME BatchEnds(p) PROVE TypeOK'
  <2>1. ASSUME ~m_stop[p] PROVE TypeOK'
    BY <1>2, <2>1 DEF BatchEnds, TypeOK, netVars, pipeVars, poolVars
  <2> QED
    BY <1>2, <2>1, TypesAround DEF BatchEnds
<1> QED
  BY <1>1, <1>2

\* The parent's handlers keep them.
LEMMA TypesParent ==
    ASSUME TypeOK, HandleListen \/ NoChildLeft \/ ParentSignals PROVE TypeOK'
<1>1. ASSUME HandleListen PROVE TypeOK'
  <2>1. NextChild \in Children
    BY <1>1, NextChildLeft DEF HandleListen
  <2>2. sub_process_counter' \in Children
    <3>1. /\ NextChild + 1 \in Int /\ 0 <= NextChild + 1
          /\ NextChild + 1 < 2 * m_process_number
      BY <2>1, ProcessPoolAssumption DEF Children
    <3> QED
      BY <1>1, <3>1, CounterWraps DEF HandleListen
  <2>3. pipe' \in [Children -> Nat] /\ pipeEdge' \in [Children -> BOOLEAN]
    <3>1. PICK k \in Children :
             \/ /\ pipe' = [pipe EXCEPT ![k] = pipe[k] + 1]
                /\ pipeEdge' = [pipeEdge EXCEPT ![k] = TRUE]
             \/ UNCHANGED pipeVars
      BY <1>1, <2>1 DEF HandleListen
    <3>2. pipe' \in [Children -> Nat]
      <4>1. pipe \in [Children -> Nat] /\ pipe[k] + 1 \in Nat
        BY DEF TypeOK
      <4> QED
        BY <3>1, <4>1 DEF pipeVars
    <3>3. pipeEdge' \in [Children -> BOOLEAN]
      BY <3>1 DEF TypeOK, pipeVars
    <3> QED
      BY <3>2, <3>3
  <2>4. Handling(Parent, "listen")
    BY <1>1 DEF HandleListen
  <2> QED
    BY <1>1, <2>2, <2>3, <2>4, Handled, Kin DEF HandleListen, TypeOK, netVars
<1>2. ASSUME NoChildLeft PROVE TypeOK'
  <2>1. m_stop' \in [Processes -> BOOLEAN]
    BY <1>2 DEF NoChildLeft, TypeOK
  <2> QED
    BY <1>2, <2>1 DEF NoChildLeft, TypeOK, netVars, pipeVars, poolVars
<1>3. ASSUME ParentSignals PROVE TypeOK'
  <2>1. /\ m_pid' \subseteq Children
        /\ pc' \in [Processes -> {"wait", "batch", "exited", "reaped"}]
    BY <1>3 DEF ParentSignals, TypeOK
  <2>2. m_stop' \in [Processes -> BOOLEAN]
    BY <1>3, Kin DEF ParentSignals, TypeOK, StopsAfter
  <2>3. sigs' \in [Processes -> SUBSET {"SIGCHLD", "SIGTERM"}]
    BY <1>3 DEF ParentSignals, TypeOK
  <2>4. Handling(Parent, "signal")
    BY <1>3 DEF ParentSignals
  <2> QED
    BY <1>3, <2>1, <2>2, <2>3, <2>4, Handled, Kin
       DEF ParentSignals, TypeOK, netVars, pipeVars
<1> QED
  BY <1>1, <1>2, <1>3

\* A child has a notification to read when it handles its pipe.
LEMMA PipeNotEmpty ==
    ASSUME TypeOK, EdgesBacked, NEW i \in Children, HandlePipe(i)
    PROVE  pipe[i] \in Nat /\ 1 <= pipe[i]
<1>1. "pipe" \in events[i] /\ Lives(i)
  BY DEF HandlePipe, Handling, Lives
<1>2. pipe[i] \in Nat
  BY DEF TypeOK
<1>3. (IF pipeEdge[i] THEN 1 ELSE 0) + 1 <= pipe[i]
  BY <1>1 DEF EdgesBacked
<1> QED
  BY <1>2, <1>3

\* And so do a child's.
LEMMA TypesChild ==
    ASSUME TypeOK, EdgesBacked, NEW i \in Children,
           \/ HandlePipe(i) \/ ChildSignals(i)
           \/ \E c \in Conns : process(i, c)
    PROVE  TypeOK'
<1>1. ASSUME HandlePipe(i) PROVE TypeOK'
  <2>1. pipe' \in [Children -> Nat]
    <3>1. pipe[i] \in Nat /\ 1 <= pipe[i]
      BY <1>1, PipeNotEmpty
    <3>2. pipe' = [pipe EXCEPT ![i] = pipe[i] - 1]
      BY <1>1 DEF HandlePipe, recv
    <3> QED
      BY <3>1, <3>2 DEF TypeOK
  <2>2. ASSUME backlog # <<>>
        PROVE  Head(backlog) \in Conns /\ Tail(backlog) \in Seq(Conns)
    BY <2>2, HeadTailProperties DEF TypeOK
  <2>3. backlog' \in Seq(Conns) /\ users' \in [Children -> SUBSET Conns]
    <3>1. CASE /\ backlog # <<>>
               /\ users' = [users EXCEPT ![i] = @ \cup {Head(backlog)}]
               /\ backlog' = Tail(backlog)
      <4>1. users' \in [Children -> SUBSET Conns]
        BY <2>2, <3>1 DEF TypeOK
      <4> QED
        BY <4>1, <2>2, <3>1
    <3>2. CASE UNCHANGED <<users, backlog>>
      BY <3>2 DEF TypeOK
    <3> QED
      BY <1>1, <3>1, <3>2 DEF HandlePipe
  <2>4. Handling(i, "pipe")
    BY <1>1 DEF HandlePipe
  <2> QED
    BY <1>1, <2>1, <2>3, <2>4, Handled, Kin DEF HandlePipe, TypeOK, poolVars
<1>2. ASSUME ChildSignals(i) PROVE TypeOK'
  <2>1. m_stop' \in [Processes -> BOOLEAN]
    BY <1>2, Kin DEF ChildSignals, TypeOK
  <2>2. sigs' \in [Processes -> SUBSET {"SIGCHLD", "SIGTERM"}]
    BY <1>2 DEF ChildSignals, TypeOK
  <2>3. Handling(i, "signal")
    BY <1>2 DEF ChildSignals
  <2> QED
    BY <1>2, <2>1, <2>2, <2>3, Handled, Kin
       DEF ChildSignals, TypeOK, netVars, pipeVars, poolVars
<1>3. ASSUME NEW c \in Conns, process(i, c) PROVE TypeOK'
  <2>1. PICK l \in LineStates : line' = [line EXCEPT ![c] = l]
    <3>1. AfterProcess(line[c]) \subseteq LineStates
      BY DEF AfterProcess, LineStates
    <3> QED
      BY <1>3, <3>1 DEF process
  <2>2. /\ line' \in [Conns -> LineStates]
        /\ users' \in [Children -> SUBSET Conns]
    BY <1>3, <2>1 DEF process, TypeOK
  <2>3. Handling(i, c)
    BY <1>3 DEF process
  <2> QED
    BY <1>3, <2>2, <2>3, Handled, Kin DEF process, TypeOK, pipeVars, poolVars
<1> QED
  BY <1>1, <1>2, <1>3

\* A process that ends: what matters of it here.
LEMMA Ending ==
    ASSUME TypeOK, NEW p \in Processes, Exits(p)
    PROVE  /\ pc' = [pc EXCEPT ![p] = "exited"]
           /\ \A q \in Processes \ {p} : pc'[q] = pc[q]
           /\ pc'[p] = "exited"
           /\ \A i \in Children : pipe'[i] = IF i = p THEN 0 ELSE pipe[i]
           /\ UNCHANGED <<backlog, edge, pipeEdge, events, m_stop, m_pid>>
<1>1. /\ pc' = [pc EXCEPT ![p] = "exited"]
      /\ \A i \in Children : pipe'[i] = IF i = p THEN 0 ELSE pipe[i]
      /\ UNCHANGED <<backlog, edge, pipeEdge, events, m_stop, m_pid>>
  BY DEF Exits, poolVars
<1> QED
  BY <1>1 DEF TypeOK

\* A living child has not been marked, whatever became of the others.
LEMMA LivingUnmarked ==
    ASSUME Marked, NEW i \in Children, Lives(i) PROVE i \in m_pid
BY DEF Marked, Lives

\* The parent marks a child only when it has waited for it, and stops last.
LEMMA MarkedStep == ASSUME TypeOK, Marked, [Next]_vars PROVE Marked'
<1> USE Kin
<1>1. ASSUME UNCHANGED <<pc, m_stop, m_pid>> PROVE Marked'
  BY <1>1 DEF Marked
<1>2. ASSUME NEW p \in Processes, Exits(p), Lives(p),
             p = Parent => m_stop[Parent]
      PROVE  Marked'
  <2>1. m_pid' = m_pid /\ m_stop' = m_stop
    BY <1>2, Ending
  <2>2. p \in Children => p \in m_pid
    BY <1>2, LivingUnmarked
  <2>3. p = Parent => m_pid = {}
    BY <1>2 DEF Marked
  <2>4. \A q \in Processes \ {p} : pc'[q] = pc[q]
    BY <1>2, Ending
  <2> QED
    BY <2>1, <2>2, <2>3, <2>4 DEF Marked
<1>3. ASSUME NEW i \in Children, Dies(i) PROVE Marked'
  BY <1>2, <1>3 DEF Dies
<1>4. ASSUME NEW p \in Processes, BatchEnds(p) PROVE Marked'
  <2>1. pc[p] = "batch" /\ Lives(p)
    BY <1>4 DEF BatchEnds, Lives
  <2>2. ASSUME ~m_stop[p] PROVE Marked'
    <3>1. pc' = [pc EXCEPT ![p] = "wait"] /\ UNCHANGED <<m_stop, m_pid>>
      BY <1>4, <2>2 DEF BatchEnds, poolVars
    <3>2. p \in Children => p \in m_pid
      BY <2>1, LivingUnmarked
    <3> QED
      BY <2>1, <3>1, <3>2 DEF Marked, TypeOK
  <2> QED
    BY <1>2, <1>4, <2>1, <2>2 DEF BatchEnds
<1>5. ASSUME NEW p \in Processes, epoll_wait(p) PROVE Marked'
  <2>1. /\ pc[p] = "wait" /\ pc' = [pc EXCEPT ![p] = "batch"]
        /\ UNCHANGED <<m_stop, m_pid>>
    BY <1>5 DEF epoll_wait, poolVars
  <2>2. p \in Children => p \in m_pid
    BY <2>1, LivingUnmarked DEF Lives
  <2> QED
    BY <2>1, <2>2 DEF Marked, TypeOK
<1>6. CASE NoChildLeft
  BY <1>6 DEF NoChildLeft, Marked, poolVars
<1>7. CASE ParentSignals
  <2>1. pc[Parent] = "batch"
    BY <1>7 DEF ParentSignals, Handling
  <2>2. ASSUME "SIGCHLD" \in sigs[Parent] PROVE Marked'
    <3>1. /\ m_pid' = m_pid \ Ended
          /\ pc' = [p \in Processes |-> IF p \in Ended THEN "reaped" ELSE pc[p]]
          /\ m_stop' = [m_stop EXCEPT ![Parent] = (m_pid' = {})]
      BY <1>7, <2>2 DEF ParentSignals, Reapable, StopsAfter
    <3>2. Parent \notin Ended
      BY DEF Ended
    <3>3. pc'[Parent] = "batch"
      BY <2>1, <3>1, <3>2
    <3>4. m_stop'[Parent] => m_pid' = {}
      BY <3>1 DEF TypeOK
    <3>5. \A i \in Children \ m_pid' : pc'[i] = "reaped"
      BY <3>1 DEF Marked
    <3> QED
      BY <3>3, <3>4, <3>5 DEF Marked
  <2> QED
    BY <1>1, <1>7, <2>2 DEF ParentSignals
<1>8. ASSUME HandleListen PROVE Marked'
  BY <1>1, <1>8 DEF HandleListen
<1>9. ASSUME NEW i \in Children,
             HandlePipe(i) \/ \E c \in Conns : process(i, c)
      PROVE  Marked'
  BY <1>1, <1>9 DEF HandlePipe, process, poolVars
<1>10. ASSUME NEW i \in Children, ChildSignals(i) PROVE Marked'
  <2>1. /\ UNCHANGED <<pc, m_pid>> /\ m_stop'[Parent] = m_stop[Parent]
    BY <1>10 DEF ChildSignals, poolVars, TypeOK
  <2> QED
    BY <2>1 DEF Marked
<1>11. ASSUME NEW c \in Conns, Connect(c) \/ Send(c) PROVE Marked'
  BY <1>1, <1>11 DEF Connect, Send, poolVars
<1>12. ASSUME NEW p \in Processes, SigTerm(p) PROVE Marked'
  BY <1>1, <1>12 DEF SigTerm, poolVars
<1>13. CASE UNCHANGED vars
  BY <1>1, <1>13 DEF vars, poolVars
<1> QED
  BY <1>3, <1>4, <1>5, <1>6, <1>7, <1>8, <1>9, <1>10, <1>11, <1>12, <1>13
     DEF Next, run_parent, run_child

\* A process waits again only when it has handled its batch.
LEMMA NoStaleBatchStep ==
    ASSUME TypeOK, NoStaleBatch, [Next]_vars PROVE NoStaleBatch'
<1> USE Kin
<1>1. ASSUME UNCHANGED <<pc, events>> PROVE NoStaleBatch'
  BY <1>1 DEF NoStaleBatch
<1>2. ASSUME NEW p \in Processes, Exits(p) PROVE NoStaleBatch'
  BY <1>2, Ending DEF NoStaleBatch
<1>3. ASSUME NEW i \in Children, Dies(i) PROVE NoStaleBatch'
  BY <1>2, <1>3 DEF Dies
<1>4. ASSUME NEW p \in Processes, BatchEnds(p) PROVE NoStaleBatch'
  <2>1. ASSUME ~m_stop[p] PROVE NoStaleBatch'
    BY <1>4, <2>1 DEF BatchEnds, NoStaleBatch, TypeOK
  <2> QED
    BY <1>2, <1>4, <2>1 DEF BatchEnds
<1>5. ASSUME NEW p \in Processes, epoll_wait(p) PROVE NoStaleBatch'
  BY <1>5 DEF epoll_wait, NoStaleBatch, TypeOK
<1>6. ASSUME NEW p \in Processes, NEW e, Handling(p, e), UNCHANGED pc
      PROVE  NoStaleBatch'
  BY <1>6, Handled DEF NoStaleBatch
<1>7. CASE NoChildLeft
  BY <1>7 DEF NoChildLeft, NoStaleBatch, TypeOK
<1>8. CASE ParentSignals
  <2>1. Handling(Parent, "signal") /\ Ended \subseteq Children
    BY <1>8 DEF ParentSignals, Ended
  <2>2. \A p \in Processes : pc'[p] = "wait" => pc[p] = "wait"
    <3>1. CASE "SIGCHLD" \in sigs[Parent]
      BY <1>8, <3>1 DEF ParentSignals
    <3>2. CASE "SIGCHLD" \notin sigs[Parent]
      BY <1>8, <3>2 DEF ParentSignals
    <3> QED
      BY <3>1, <3>2
  <2> QED
    BY <2>1, <2>2, Handled DEF NoStaleBatch
<1>9. CASE HandleListen
  BY <1>6, <1>9 DEF HandleListen
<1>10. ASSUME NEW i \in Children,
              \/ HandlePipe(i) \/ ChildSignals(i)
              \/ \E c \in Conns : process(i, c)
       PROVE  NoStaleBatch'
  BY <1>6, <1>10 DEF HandlePipe, ChildSignals, process
<1>11. ASSUME NEW c \in Conns, Connect(c) \/ Send(c) PROVE NoStaleBatch'
  BY <1>1, <1>11 DEF Connect, Send
<1>12. ASSUME NEW p \in Processes, SigTerm(p) PROVE NoStaleBatch'
  BY <1>1, <1>12 DEF SigTerm
<1>13. CASE UNCHANGED vars
  BY <1>1, <1>13 DEF vars
<1> QED
  BY <1>3, <1>4, <1>5, <1>7, <1>8, <1>9, <1>10, <1>11, <1>12, <1>13
     DEF Next, run_parent, run_child


\* An edge of a pipe comes with a notification, and goes with one.
LEMMA EdgesBackedStep ==
    ASSUME TypeOK, EdgesBacked, NoStaleBatch, TypeOK', [Next]_vars
    PROVE  EdgesBacked'
<1> USE Kin
<1> DEFINE Kept(i) == /\ Lives(i)' => Lives(i)
                      /\ pipeEdge'[i] => pipeEdge[i]
                      /\ "pipe" \in events'[i] => "pipe" \in events[i]
                      /\ pipe'[i] = pipe[i]
           Edge(i) == /\ pipe[i] \in Nat
                      /\ Lives(i) =>
                           (IF pipeEdge[i] THEN 1 ELSE 0)
                           + (IF "pipe" \in events[i] THEN 1 ELSE 0) <= pipe[i]
<1>0. \A i \in Children : Edge(i)
  BY DEF EdgesBacked, TypeOK
<1>1. ASSUME NEW i \in Children, Kept(i) PROVE Edge(i)'
  <2>1. Edge(i) /\ pipe[i]' = pipe[i]
    BY <1>0, <1>1
  <2> QED
    BY <1>1, <2>1
<1>2. ASSUME \A i \in Children : Edge(i)' PROVE EdgesBacked'
  BY <1>2 DEF EdgesBacked
<1>3. ASSUME \A i \in Children : Kept(i) PROVE EdgesBacked'
  <2> HIDE DEF Kept, Edge
  <2> QED
    BY <1>1, <1>2, <1>3
<1>4. ASSUME NEW p \in Processes, Exits(p) PROVE EdgesBacked'
  <2> SUFFICES ASSUME NEW i \in Children PROVE Edge(i)'
    BY <1>2
  <2>1. CASE i = p
    BY <1>4, <2>1, Ending DEF Lives
  <2>2. CASE i # p
    <3>1. Kept(i)
      BY <1>4, <2>2, Ending DEF Lives
    <3> HIDE DEF Kept, Edge
    <3> QED
      BY <1>1, <3>1
  <2> QED
    BY <2>1, <2>2
<1>5. ASSUME NEW i \in Children, Dies(i) PROVE EdgesBacked'
  BY <1>4, <1>5 DEF Dies
<1>6. ASSUME NEW p \in Processes, BatchEnds(p) PROVE EdgesBacked'
  <2>1. ASSUME ~m_stop[p] PROVE EdgesBacked'
    <3>1. /\ pc[p] = "batch" /\ pc' = [pc EXCEPT ![p] = "wait"]
          /\ UNCHANGED <<pipe, pipeEdge, events>>
      BY <1>6, <2>1 DEF BatchEnds, pipeVars
    <3>2. \A i \in Children : Kept(i)
      BY <3>1 DEF Lives, TypeOK
    <3> QED
      BY <1>3, <3>2
  <2> QED
    BY <1>4, <1>6, <2>1 DEF BatchEnds
<1>7. ASSUME NEW p \in Processes, epoll_wait(p) PROVE EdgesBacked'
  <2>1. /\ pc[p] = "wait" /\ pc' = [pc EXCEPT ![p] = "batch"]
        /\ events' = [events EXCEPT ![p] = Ready(p)]
        /\ pipeEdge' = [i \in Children |-> pipeEdge[i] /\ i # p]
        /\ pipe' = pipe /\ events[p] = {}
    BY <1>7 DEF epoll_wait, NoStaleBatch
  <2> SUFFICES ASSUME NEW i \in Children PROVE Edge(i)'
    BY <1>2
  <2>2. CASE i # p
    <3>1. Kept(i)
      BY <2>1, <2>2 DEF Lives, TypeOK
    <3> HIDE DEF Kept, Edge
    <3> QED
      BY <1>1, <3>1
  <2>3. CASE i = p
    <3>1. "pipe" \in Ready(i) => pipeEdge[i]
      BY ProcessPoolAssumption DEF Ready, TypeOK
    <3>2. /\ ~pipeEdge'[i] /\ Lives(i) /\ "pipe" \notin events[i]
          /\ "pipe" \in events'[i] => pipeEdge[i]
      BY <2>1, <2>3, <3>1 DEF Lives, TypeOK
    <3>3. Edge(i)
      BY <1>0
    <3>4. pipe'[i] = pipe[i]
      BY <2>1
    <3> QED
      BY <3>2, <3>3, <3>4
  <2> QED
    BY <2>2, <2>3
<1>8. CASE HandleListen
  <2>1. NextChild \in Children
    BY <1>8, NextChildLeft DEF HandleListen
  <2>2. /\ Handling(Parent, "listen") /\ pc' = pc
        /\ \A i \in Children : events'[i] = events[i]
    BY <1>8, Handled DEF HandleListen
  <2>3. CASE ~Lives(NextChild)
    <3>1. \A i \in Children : Kept(i)
      BY <1>8, <2>2, <2>3 DEF HandleListen, pipeVars, Lives
    <3> QED
      BY <1>3, <3>1
  <2>4. CASE Lives(NextChild)
    <3> SUFFICES ASSUME NEW i \in Children PROVE Edge(i)'
      BY <1>2
    <3>1. PICK k \in Children : /\ pipe' = [pipe EXCEPT ![k] = pipe[k] + 1]
                                /\ pipeEdge' = [pipeEdge EXCEPT ![k] = TRUE]
                                /\ Lives(k)
      BY <1>8, <2>1, <2>4 DEF HandleListen
    <3>2. CASE i # k
      <4>1. Kept(i)
        BY <2>2, <3>1, <3>2 DEF Lives, TypeOK
      <4> HIDE DEF Kept, Edge
      <4> QED
        BY <1>1, <4>1
    <3>3. CASE i = k
      <4>1. /\ pipe'[i] = pipe[i] + 1 /\ Lives(i)
            /\ events'[i] = events[i]
        BY <2>2, <3>1, <3>3 DEF TypeOK
      <4>2. Edge(i)
        BY <1>0
      <4> QED
        BY <4>1, <4>2
    <3> QED
      BY <3>2, <3>3
  <2> QED
    BY <2>3, <2>4
<1>9. ASSUME NEW p \in Processes, NEW e, Handling(p, e),
             UNCHANGED <<pipe, pipeEdge>>,
             \A i \in Children : Lives(i)' => Lives(i)
      PROVE  EdgesBacked'
  <2>1. \A i \in Children : Kept(i)
    BY <1>9, Handled
  <2> QED
    BY <1>3, <2>1
<1>10. CASE NoChildLeft
  <2>1. \A i \in Children : Kept(i)
    BY <1>10 DEF NoChildLeft, pipeVars, Lives, TypeOK
  <2> QED
    BY <1>3, <2>1
<1>11. CASE ParentSignals
  <2>1. \A i \in Children : Lives(i)' => Lives(i)
    BY <1>11 DEF ParentSignals, Lives
  <2> QED
    BY <1>9, <1>11, <2>1 DEF ParentSignals, pipeVars
<1>12. ASSUME NEW i \in Children, HandlePipe(i) PROVE EdgesBacked'
  <2> SUFFICES ASSUME NEW j \in Children PROVE Edge(j)'
    BY <1>2
  <2>1. /\ Handling(i, "pipe") /\ pipe' = [pipe EXCEPT ![i] = pipe[i] - 1]
        /\ UNCHANGED <<pipeEdge, pc>>
    BY <1>12 DEF HandlePipe, recv
  <2>2. /\ "pipe" \in events[i] /\ pc[i] = "batch" /\ "pipe" \notin events'[i]
        /\ \A q \in Processes \ {i} : events'[q] = events[q]
    BY <2>1, Handled
  <2>3. CASE j # i
    <3>1. Kept(j)
      BY <2>1, <2>2, <2>3 DEF Lives, TypeOK
    <3> HIDE DEF Kept, Edge
    <3> QED
      BY <1>1, <3>1
  <2>4. CASE j = i
    <3>1. Edge(i) /\ Lives(i) /\ pipe'[i] = pipe[i] - 1
      BY <1>0, <2>1, <2>2 DEF Lives, TypeOK
    <3>2. pipe'[i] \in Nat
      BY DEF TypeOK
    <3> QED
      BY <2>1, <2>2, <2>4, <3>1, <3>2
  <2> QED
    BY <2>3, <2>4
<1>13. ASSUME NEW i \in Children, ChildSignals(i) PROVE EdgesBacked'
  BY <1>9, <1>13 DEF ChildSignals, pipeVars, Lives
<1>14. ASSUME NEW i \in Children, NEW c \in Conns, process(i, c)
       PROVE  EdgesBacked'
  BY <1>9, <1>14 DEF process, pipeVars, Lives
<1>15. ASSUME UNCHANGED <<pipe, pipeEdge, events, pc>> PROVE EdgesBacked'
  BY <1>15 DEF EdgesBacked, Lives
<1>16. ASSUME NEW c \in Conns, Connect(c) \/ Send(c) PROVE EdgesBacked'
  BY <1>15, <1>16 DEF Connect, Send, pipeVars
<1>17. ASSUME NEW p \in Processes, SigTerm(p) PROVE EdgesBacked'
  BY <1>15, <1>17 DEF SigTerm, pipeVars
<1>18. CASE UNCHANGED vars
  BY <1>15, <1>18 DEF vars, pipeVars
<1> HIDE DEF Kept, Edge
<1> QED
  BY <1>5, <1>6, <1>7, <1>8, <1>10, <1>11, <1>12, <1>13, <1>14, <1>16, <1>17,
     <1>18 DEF Next, run_parent, run_child

\* Notifications are added, moved and read; none is made up.
LEMMA BackedStep ==
    ASSUME TypeOK, EdgesBacked, NoStaleBatch, Backed, TypeOK', [Next]_vars
    PROVE  Backed'
<1> USE Kin
<1> DEFINE e == IF edge THEN 1 ELSE 0
           l == IF "listen" \in events[Parent] THEN 1 ELSE 0
           n == Cardinality(InPipes)
<1>0. /\ IsFiniteSet(InPipes) /\ n \in Nat /\ Len(backlog) \in Nat
      /\ e + l + n <= Len(backlog)
  BY FS_CardinalityType DEF Backed, TypeOK
<1>1. InPipes = Tokens(pipe) /\ InPipes' = Tokens(pipe')
  BY DEF InPipes, Tokens
<1>2. ASSUME IsFiniteSet(InPipes'), n' <= n, edge' => edge,
             "listen" \in events'[Parent] => "listen" \in events[Parent],
             backlog' = backlog
      PROVE  Backed'
  <2>1. n' \in Nat /\ e' + l' <= e + l
    BY <1>2, FS_CardinalityType
  <2>2. e' + l' + n' <= Len(backlog')
    BY <1>0, <1>2, <2>1
  <2> QED
    BY <1>2, <2>2 DEF Backed
<1>3. ASSUME pipe' = pipe PROVE IsFiniteSet(InPipes') /\ n' = n
  BY <1>0, <1>1, <1>3
<1>4. ASSUME NEW c \in Conns, Connect(c) PROVE Backed'
  <2>1. /\ pipe' = pipe /\ events' = events /\ edge' = TRUE
        /\ backlog' = Append(backlog, c)
    BY <1>4 DEF Connect, pipeVars
  <2>2. Len(backlog') = Len(backlog) + 1
    BY <2>1 DEF TypeOK
  <2>3. e' = 1 /\ l' = l /\ n' = n
    BY <1>3, <2>1
  <2> QED
    BY <1>0, <1>3, <2>1, <2>2, <2>3 DEF Backed
<1>5. ASSUME NEW p \in Processes, Exits(p) PROVE Backed'
  <2>1. Tokens(pipe') \subseteq Tokens(pipe)
    <3>1. \A i \in Children : pipe'[i] = IF i = p THEN 0 ELSE pipe[i]
      BY <1>5, Ending
    <3>2. \A i \in Children : \A k : k \in 1..pipe'[i] => k \in 1..pipe[i]
      BY <3>1
    <3> QED
      BY <3>2, TokensFewer
  <2>2. IsFiniteSet(InPipes') /\ n' <= n
    BY <1>0, <1>1, <2>1, FS_Subset
  <2> QED
    BY <1>2, <1>5, <2>2, Ending
<1>6. ASSUME NEW p \in Processes, BatchEnds(p) PROVE Backed'
  <2>1. ASSUME ~m_stop[p] PROVE Backed'
    BY <1>0, <1>2, <1>3, <1>6, <2>1 DEF BatchEnds, netVars, pipeVars
  <2> QED
    BY <1>5, <1>6, <2>1 DEF BatchEnds
<1>7. ASSUME NEW i \in Children, Dies(i) PROVE Backed'
  BY <1>5, <1>7 DEF Dies
<1>8. ASSUME NEW p \in Processes, epoll_wait(p) PROVE Backed'
  <2>1. /\ events' = [events EXCEPT ![p] = Ready(p)]
        /\ edge' = (edge /\ p # Parent) /\ UNCHANGED <<pipe, backlog>>
        /\ events[p] = {}
    BY <1>8 DEF epoll_wait, NoStaleBatch
  <2>2. CASE p # Parent
    BY <1>0, <1>2, <1>3, <2>1, <2>2 DEF TypeOK
  <2>3. CASE p = Parent
    <3>1. "listen" \in Ready(Parent) <=> edge
      BY DEF Ready
    <3>2. ~edge' /\ ("listen" \in events'[Parent] <=> edge)
      BY <2>1, <2>3, <3>1 DEF TypeOK
    <3>3. e' = 0 /\ l' = e /\ l = 0 /\ n' = n
      BY <1>3, <2>1, <2>3, <3>2
    <3> QED
      BY <1>0, <1>3, <2>1, <3>3 DEF Backed
  <2> QED
    BY <2>2, <2>3
<1>9. CASE HandleListen
  <2>1. NextChild \in Children
    BY <1>9, NextChildLeft DEF HandleListen
  <2>2. Handling(Parent, "listen") /\ UNCHANGED <<edge, backlog>>
    BY <1>9 DEF HandleListen, netVars
  <2>3. "listen" \in events[Parent] /\ "listen" \notin events'[Parent]
    BY <2>2, Handled
  <2>4. IsFiniteSet(InPipes') /\ n' <= n + 1
    <3>1. PICK k \in Children : \/ pipe' = [pipe EXCEPT ![k] = pipe[k] + 1]
                                \/ pipe' = pipe
      BY <1>9, <2>1 DEF HandleListen, pipeVars
    <3>2. CASE pipe' = pipe
      BY <1>0, <1>3, <3>2
    <3>3. CASE pipe' = [pipe EXCEPT ![k] = pipe[k] + 1]
      <4>1. /\ pipe[k] \in Nat /\ pipe'[k] = pipe[k] + 1
            /\ \A i \in Children \ {k} : pipe'[i] = pipe[i]
        BY <3>3 DEF TypeOK
      <4> QED
        BY <1>0, <1>1, <4>1, OneMore
    <3> QED
      BY <3>1, <3>2, <3>3
  <2>5. l = 1 /\ l' = 0 /\ e' = e /\ n' \in Nat
    BY <2>2, <2>3, <2>4, FS_CardinalityType
  <2> QED
    BY <1>0, <2>2, <2>4, <2>5 DEF Backed
<1>10. CASE NoChildLeft
  <2>1. "listen" \notin events'[Parent] /\ UNCHANGED <<edge, backlog, pipe>>
    BY <1>10 DEF NoChildLeft, netVars, pipeVars, TypeOK
  <2> QED
    BY <1>0, <1>2, <1>3, <2>1
<1>11. ASSUME NEW p \in Processes, NEW x, Handling(p, x),
              UNCHANGED <<pipe, edge, backlog>>
       PROVE  Backed'
  <2>1. "listen" \in events'[Parent] => "listen" \in events[Parent]
    BY <1>11, Handled
  <2> QED
    BY <1>0, <1>2, <1>3, <1>11, <2>1
<1>12. CASE ParentSignals
  BY <1>11, <1>12 DEF ParentSignals, netVars, pipeVars
<1>13. ASSUME NEW i \in Children, ChildSignals(i) PROVE Backed'
  BY <1>11, <1>13 DEF ChildSignals, netVars, pipeVars
<1>14. ASSUME NEW i \in Children, NEW c \in Conns, process(i, c) PROVE Backed'
  BY <1>11, <1>14 DEF process, pipeVars
<1>15. ASSUME NEW i \in Children, HandlePipe(i) PROVE Backed'
  <2>1. pipe[i] \in Nat /\ pipe'[i] \in Nat /\ pipe[i] = pipe'[i] + 1
    BY <1>15, PipeNotEmpty DEF HandlePipe, recv, TypeOK
  <2>2. \A j \in Children \ {i} : pipe[j] = pipe'[j]
    BY <1>15 DEF HandlePipe, recv, TypeOK
  <2>3. IsFiniteSet(Tokens(pipe'))
    <3>1. \A j \in Children : \A k : k \in 1..pipe'[j] => k \in 1..pipe[j]
      BY <2>1, <2>2
    <3>2. Tokens(pipe') \subseteq Tokens(pipe)
      BY <3>1, TokensFewer
    <3> QED
      BY <1>0, <1>1, <3>2, FS_Subset
  <2>4. IsFiniteSet(InPipes') /\ n = n' + 1 /\ n' \in Nat
    BY <1>1, <2>1, <2>2, <2>3, OneMore, FS_CardinalityType
  <2>5. Len(backlog) >= 1
    BY <1>0, <2>4
  <2>6. /\ backlog' \in {backlog, Tail(backlog)} /\ edge' = edge
        /\ Handling(i, "pipe")
    BY <1>15 DEF HandlePipe
  <2>7. Len(backlog') >= Len(backlog) - 1 /\ Len(backlog') \in Nat
    BY <2>5, <2>6 DEF TypeOK
  <2>8. events'[Parent] = events[Parent]
    BY <2>6, Handled
  <2>9. e' = e /\ l' = l
    BY <2>6, <2>8
  <2> QED
    BY <1>0, <2>4, <2>7, <2>9 DEF Backed
<1>16. ASSUME NEW c \in Conns, Send(c) PROVE Backed'
  BY <1>0, <1>2, <1>3, <1>16 DEF Send, pipeVars
<1>17. ASSUME NEW p \in Processes, SigTerm(p) PROVE Backed'
  BY <1>0, <1>2, <1>3, <1>17 DEF SigTerm, netVars, pipeVars
<1>18. CASE UNCHANGED vars
  BY <1>0, <1>2, <1>3, <1>18 DEF vars, netVars, pipeVars
<1> QED
  BY <1>4, <1>6, <1>7, <1>8, <1>9, <1>10, <1>12, <1>13, <1>14, <1>15, <1>16,
     <1>17, <1>18 DEF Next, run_parent, run_child

\* Every step preserves the invariant.
LEMMA CgiStep == ASSUME CgiInv, [Next]_vars PROVE CgiInv'
<1> USE DEF CgiInv
<1>1. TypeOK'
  <2>1. CASE UNCHANGED vars
    BY <2>1 DEF vars, netVars, pipeVars, poolVars, TypeOK
  <2> QED
    BY <2>1, TypesAround, TypesLoop, TypesParent, TypesChild, Kin
       DEF Next, run_parent, run_child, Dies
<1> QED
  BY <1>1, EdgesBackedStep, NoStaleBatchStep, BackedStep, MarkedStep

\* The parts of the invariant hold throughout.
THEOREM CgiInvariant == Spec => []CgiInv
<1>1. Init => CgiInv
  BY CgiInitially
<1>2. CgiInv /\ [Next]_vars => CgiInv'
  BY CgiStep
<1> QED
  BY <1>1, <1>2, PTL DEF Spec

\* However many children and clients there are, whichever children die and in
\* whatever order the others read their pipes: a child that is told to accept
\* (processpool.h, run_child) finds a connection in the backlog.
THEOREM NotificationsAreBacked == Spec => []NotificationsBacked
<1>1. CgiInv => NotificationsBacked
  <2> SUFFICES ASSUME CgiInv PROVE NotificationsBacked
    OBVIOUS
  <2>1. Cardinality(InPipes) \in Nat /\ Len(backlog) \in Nat
    BY FS_CardinalityType DEF CgiInv, Backed, TypeOK
  <2> QED
    BY <2>1 DEF CgiInv, Backed, NotificationsBacked, Notifications
<1> QED
  BY <1>1, CgiInvariant, PTL

\* run_parent ends only when every child has ended and has been waited for,
\* also if children die on their own or several end with one SIGCHLD.
THEOREM ParentEndsLast == Spec => []ParentLast
<1>1. CgiInv => ParentLast
  BY DEF CgiInv, Marked, ParentLast
<1> QED
  BY <1>1, CgiInvariant, PTL
=============================================================================
