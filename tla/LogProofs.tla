------------------------------ MODULE LogProofs ------------------------------
(***************************************************************************)
(* Proofs about the log and its queue.  AsyncLog, for any finite set of    *)
(* writers, any size of the queue and any m_split_lines: a thread's lines  *)
(* reach the files in order, one logging thread loses none, and without    *)
(* the queue its files are kept as Log promises.  BlockQueue, for any      *)
(* items, threads and size of the array: the circular array, with its      *)
(* mutex and its condition variable, implements the bounded queue of       *)
(* BoundedFifo.                                                            *)
(***************************************************************************)
EXTENDS AsyncLog, QueueArray, FiniteSetTheorems, SequenceTheorems, TLAPS

\* A line in hand belongs to its thread; only loggers have one; the queue is
\* used in one mode and fputs by the writers in the other.
Roles ==
    /\ \A w \in Writers : line[w].by = w /\ (w \notin loggers => pc[w] = "out")
    /\ m_is_async => \A w \in Writers : pc[w] # "put"
    /\ ~m_is_async => /\ m_log_queue = <<>> /\ single_log = <<>>
                      /\ \A w \in Writers : pc[w] \notin {"full", "push"}

\* l is a line its thread has got rid of: an earlier one than the one in hand.
Past(l) == /\ l.no <= line[l.by].no
           /\ pc[l.by] # "out" => l.no < line[l.by].no

\* Lines in the queue, popped or written are past.
AllPast ==
    /\ \A i \in DOMAIN files : Past(files[i].line)
    /\ \A i \in DOMAIN single_log : Past(single_log[i])
    /\ \A i \in DOMAIN m_log_queue : Past(m_log_queue[i])

Before(k, l) == k.by = l.by => k.no < l.no

\* Each thread's lines are in order on their whole way: files, then the line
\* the flush thread has popped, then the queue.
InOrder ==
    /\ \A i, j \in DOMAIN files : i < j => Before(files[i].line, files[j].line)
    /\ \A i \in DOMAIN files, j \in DOMAIN single_log :
          Before(files[i].line, single_log[j])
    /\ \A i \in DOMAIN files, j \in DOMAIN m_log_queue :
          Before(files[i].line, m_log_queue[j])
    /\ \A i \in DOMAIN single_log, j \in DOMAIN m_log_queue :
          Before(single_log[i], m_log_queue[j])
    /\ \A i, j \in DOMAIN m_log_queue :
          i < j => Before(m_log_queue[i], m_log_queue[j])

\* With one logging thread the test of full() still holds at the push.
RoomForPush == OneLogger => \A w \in Writers : pc[w] = "push" => Room

\* The clock has not gone back.
DaysPast == \A w \in Writers : line[w].day <= now

\* The lines of file f, by their positions.
PlacesOf(f) == {i \in DOMAIN files : files[i].file = f}

\* One thread without the queue: m_fp is the file that m_today and m_count name,
\* no file of a later name has a line, and m_count bounds the lines of m_fp, the
\* one that is about to be written included.
Rotation ==
    OneLogger /\ ~m_is_async =>
    /\ m_fp = <<m_today, m_count \div m_split_lines>>
    /\ \A w \in loggers :
          /\ m_today <= line[w].day
          /\ pc[w] # "count" => m_today = line[w].day
    /\ \A i \in DOMAIN files :
          /\ files[i].file[1] <= m_today
          /\ files[i].file[1] = m_today =>
                files[i].file[2] <= m_count \div m_split_lines
    /\ Cardinality(PlacesOf(m_fp)) <= (m_count % m_split_lines) + 1
    /\ \A w \in loggers : pc[w] = "put" =>
          Cardinality(PlacesOf(m_fp)) <= m_count % m_split_lines

\* The inductive invariants: for the order of the lines, for the pushes, and
\* for the files.
OrderInv == TypeOK /\ Roles /\ AllPast /\ InOrder
PushInv == TypeOK /\ Roles /\ RoomForPush /\ NoneLost
FilesInv == TypeOK /\ Roles /\ DaysPast /\ Rotation /\ FilesKept

\* What Append and Tail do, index by index.
LEMMA AppendAt ==
    ASSUME NEW S, NEW s \in Seq(S), NEW x \in S
    PROVE  /\ Append(s, x) \in Seq(S) /\ Len(s) \in Nat
           /\ Len(Append(s, x)) = Len(s) + 1
           /\ DOMAIN s = 1..Len(s) /\ DOMAIN Append(s, x) = 1..(Len(s) + 1)
           /\ \A i \in 1..Len(s) : Append(s, x)[i] = s[i]
           /\ Append(s, x)[Len(s) + 1] = x
BY AppendProperties, LenProperties

\* See above.
LEMMA TailAt ==
    ASSUME NEW S, NEW s \in Seq(S), s # <<>>
    PROVE  /\ Tail(s) \in Seq(S) /\ Len(s) \in Nat \ {0}
           /\ Head(s) \in S /\ Head(s) = s[1]
           /\ Len(Tail(s)) = Len(s) - 1
           /\ DOMAIN s = 1..Len(s) /\ DOMAIN Tail(s) = 1..(Len(s) - 1)
           /\ \A i \in 1..(Len(s) - 1) : Tail(s)[i] = s[i + 1]
<1>1. /\ Head(s) \in S /\ Tail(s) \in Seq(S) /\ Len(Tail(s)) = Len(s) - 1
      /\ \A i \in 1..Len(Tail(s)) : Tail(s)[i] = s[i + 1]
  BY HeadTailProperties
<1>2. Len(s) \in Nat \ {0} /\ DOMAIN s = 1..Len(s)
  BY EmptySeq, LenProperties
<1>3. Head(s) = s[1]
  OBVIOUS
<1> QED
  BY <1>1, <1>2, <1>3, LenProperties

\* The sequence that has only x.
LEMMA SingleAt ==
    ASSUME NEW S, NEW x \in S
    PROVE  /\ <<x>> \in Seq(S) /\ Len(<<x>>) = 1 /\ <<x>>[1] = x
           /\ DOMAIN <<x>> = {1} /\ DOMAIN <<>> = {}
OBVIOUS

\* The parts of a line, and the line Stamp makes.
LEMMA LineParts ==
    ASSUME TypeOK
    PROVE  /\ \A l \in Lines : /\ l.by \in Writers /\ l.no \in Nat
                               /\ l.day \in Nat
           /\ \A w \in Writers : line[w] \in Lines
           /\ \A w \in Writers : Stamp(w) =>
                 /\ line'[w] \in Lines /\ line'[w].by = line[w].by
                 /\ line'[w].no = line[w].no + 1 /\ line'[w].day = now
                 /\ \A v \in Writers \ {w} : line'[v] = line[v]
                 /\ line' \in [Writers -> Lines]
<1>1. \A l \in Lines : l.by \in Writers /\ l.no \in Nat /\ l.day \in Nat
  BY AsyncLogAssumption DEF Lines
<1>2. line \in [Writers -> Lines] /\ now \in 0..MaxDay
  BY DEF TypeOK
<1>3. ASSUME NEW w \in Writers, Stamp(w)
      PROVE  /\ line'[w] \in Lines /\ line'[w].by = line[w].by
             /\ line'[w].no = line[w].no + 1 /\ line'[w].day = now
  <2>1. line'[w] = [line[w] EXCEPT !.no = @ + 1, !.day = now]
    BY <1>2, <1>3 DEF Stamp
  <2>2. line[w] \in Lines /\ line[w].no < MaxLines
    BY <1>2, <1>3 DEF Stamp
  <2>3. line[w].no + 1 \in 0..MaxLines /\ line[w].by \in Writers
    BY <2>2, AsyncLogAssumption DEF Lines
  <2>4. line'[w] = [by |-> line[w].by, no |-> line[w].no + 1, day |-> now]
    BY <2>1, <2>2 DEF Lines
  <2> QED
    BY <1>2, <2>3, <2>4 DEF Lines
<1>4. ASSUME NEW w \in Writers, Stamp(w)
      PROVE  /\ \A v \in Writers \ {w} : line'[v] = line[v]
             /\ line' \in [Writers -> Lines]
  <2>1. line'[w] \in Lines
    BY <1>3, <1>4
  <2>2. line' = [line EXCEPT ![w] = line'[w]]
    BY <1>2, <1>4 DEF Stamp
  <2> QED
    BY <1>2, <2>1, <2>2
<1> QED
  BY <1>1, <1>2, <1>3, <1>4

\* The types and the roles hold in the beginning.
LEMMA RolesInitially == ASSUME Init PROVE TypeOK /\ Roles
<1> USE AsyncLogAssumption DEF Init
<1>1. line \in [Writers -> Lines]
  BY DEF Lines
<1>2. /\ files \in Seq([file : (0..MaxDay) \X Nat, line : Lines])
      /\ m_log_queue \in Seq(Lines) /\ single_log \in Seq(Lines)
      /\ Len(m_log_queue) = 0 /\ Len(single_log) = 0
  OBVIOUS
<1>3. TypeOK
  BY <1>1, <1>2 DEF TypeOK
<1> QED
  BY <1>3 DEF Roles

\* Every step keeps the types and the roles.
LEMMA RolesKept ==
    ASSUME TypeOK, Roles, [Next]_vars PROVE TypeOK' /\ Roles'
<1> USE AsyncLogAssumption DEF logVars, settings
<1> DEFINE Entries == [file : (0..MaxDay) \X Nat, line : Lines]
<1>l. /\ \A w \in Writers : line[w] \in Lines
      /\ \A l \in Lines : l.day \in Nat
  BY LineParts
<1>1. CASE NextDay
  BY <1>1 DEF NextDay, TypeOK, Roles
<1>2. ASSUME NEW w \in Writers, Stamp(w) PROVE TypeOK' /\ Roles'
  <2>1. /\ line' \in [Writers -> Lines] /\ \A v \in Writers : line'[v].by = v
    BY <1>2, LineParts DEF Roles
  <2>2. TypeOK'
    BY <1>2, <2>1 DEF Stamp, TypeOK
  <2>3. Roles'
    BY <1>2, <2>1 DEF Stamp, TypeOK, Roles
  <2> QED
    BY <2>2, <2>3
<1>3. ASSUME NEW w \in Writers, Count(w) PROVE TypeOK' /\ Roles'
  <2>1. line[w].day \in 0..MaxDay
    BY <1>l DEF Lines
  <2>2. /\ m_today' \in 0..MaxDay /\ m_count' \in Nat
        /\ m_fp' \in (0..MaxDay) \X Nat
    <3>1. m_today \in 0..MaxDay /\ m_count \in Nat /\ m_fp \in (0..MaxDay) \X Nat
      BY DEF TypeOK
    <3>2. \A n \in Nat : n \div m_split_lines \in Nat
      OBVIOUS
    <3> QED
      BY <1>3, <2>1, <3>1, <3>2 DEF Count
  <2>3. pc' = [pc EXCEPT ![w] = IF m_is_async THEN "full" ELSE "put"]
        /\ pc[w] = "count"
    BY <1>3 DEF Count
  <2>4. TypeOK'
    BY <1>3, <2>2, <2>3 DEF Count, TypeOK
  <2>5. Roles'
    BY <1>3, <2>3 DEF Count, TypeOK, Roles
  <2> QED
    BY <2>4, <2>5
<1>4. ASSUME NEW w \in Writers, NotFull(w) PROVE TypeOK' /\ Roles'
  BY <1>4 DEF NotFull, TypeOK, Roles
<1>5. ASSUME NEW w \in Writers, Push(w) PROVE TypeOK' /\ Roles'
  <2>1. /\ m_log_queue' \in Seq(Lines) /\ Len(m_log_queue') <= max_queue_size
        /\ lost' \subseteq Lines
    <3>1. /\ m_log_queue \in Seq(Lines) /\ Len(m_log_queue) <= max_queue_size
          /\ lost \subseteq Lines /\ line[w] \in Lines
      BY <1>l DEF TypeOK
    <3>2. /\ Append(m_log_queue, line[w]) \in Seq(Lines)
          /\ Len(Append(m_log_queue, line[w])) = Len(m_log_queue) + 1
          /\ Len(m_log_queue) \in Nat
      BY <3>1, AppendAt
    <3>3. \/ /\ Len(m_log_queue) < max_queue_size /\ lost' = lost
             /\ m_log_queue' = Append(m_log_queue, line[w])
          \/ m_log_queue' = m_log_queue /\ lost' = lost \cup {line[w]}
      BY <1>5 DEF Push, Room, enqueue
    <3>4. max_queue_size \in Nat
      BY AsyncLogAssumption
    <3> QED
      BY ONLY <3>1, <3>2, <3>3, <3>4
  <2>2. pc' = [pc EXCEPT ![w] = "out"] /\ pc[w] = "push" /\ m_is_async
    BY <1>5 DEF Push, Roles, TypeOK
  <2>3. TypeOK'
    BY <1>5, <2>1, <2>2 DEF Push, TypeOK
  <2>4. Roles'
    BY <1>5, <2>2 DEF Push, TypeOK, Roles
  <2> QED
    BY <2>3, <2>4
<1>6. ASSUME NEW w \in Writers, PutSync(w) PROVE TypeOK' /\ Roles'
  <2>1. files' \in Seq(Entries)
    <3>1. files \in Seq(Entries) /\ [file |-> m_fp, line |-> line[w]] \in Entries
      BY <1>l DEF TypeOK
    <3> QED
      BY <1>6, <3>1 DEF PutSync, fputs
  <2>2. pc' = [pc EXCEPT ![w] = "out"]
    BY <1>6 DEF PutSync
  <2>3. TypeOK'
    BY <1>6, <2>1, <2>2 DEF PutSync, TypeOK
  <2>4. Roles'
    BY <1>6, <2>2 DEF PutSync, TypeOK, Roles
  <2> QED
    BY <2>3, <2>4
<1>7. CASE Pop
  <2>1. /\ m_log_queue' \in Seq(Lines) /\ Len(m_log_queue') <= max_queue_size
        /\ single_log' \in Seq(Lines) /\ Len(single_log') <= 1
    <3>1. /\ m_log_queue \in Seq(Lines) /\ Len(m_log_queue) <= max_queue_size
          /\ m_log_queue # <<>>
      BY <1>7 DEF TypeOK, Pop
    <3>2. /\ Tail(m_log_queue) \in Seq(Lines) /\ Len(m_log_queue) \in Nat
          /\ Len(Tail(m_log_queue)) = Len(m_log_queue) - 1
          /\ Head(m_log_queue) \in Lines
      BY <3>1, TailAt
    <3>3. /\ <<Head(m_log_queue)>> \in Seq(Lines)
          /\ Len(<<Head(m_log_queue)>>) = 1
      BY <3>2, SingleAt
    <3> QED
      BY <1>7, <3>1, <3>2, <3>3 DEF Pop
  <2>2. TypeOK'
    BY <1>7, <2>1 DEF Pop, TypeOK
  <2>3. Roles'
    BY <1>7 DEF Pop, Roles
  <2> QED
    BY <2>2, <2>3
<1>8. CASE PutAsync
  <2>1. files' \in Seq(Entries)
    <3>1. Head(single_log) \in Lines
      BY <1>8, TailAt DEF PutAsync, TypeOK
    <3>2. /\ files \in Seq(Entries)
          /\ [file |-> m_fp, line |-> Head(single_log)] \in Entries
      BY <3>1 DEF TypeOK
    <3> QED
      BY <1>8, <3>2 DEF PutAsync, fputs
  <2>2. /\ single_log' = <<>> /\ single_log' \in Seq(Lines)
        /\ Len(single_log') <= 1
    BY <1>8 DEF PutAsync
  <2>3. TypeOK'
    BY <1>8, <2>1, <2>2 DEF PutAsync, TypeOK
  <2>4. Roles'
    BY <1>8, <2>2 DEF PutAsync, Roles
  <2> QED
    BY <2>3, <2>4
<1>9. CASE UNCHANGED vars
  BY <1>9 DEF vars, TypeOK, Roles
<1> QED
  BY <1>1, <1>2, <1>3, <1>4, <1>5, <1>6, <1>7, <1>8, <1>9
     DEF Next, async_write_log, write_log

\* A past line stays past, and the line a thread gets rid of becomes past.
LEMMA PastKept ==
    ASSUME TypeOK, Roles, [Next]_vars, NEW l \in Lines, Past(l) PROVE Past(l)'
<1> USE DEF Past
<1>t. /\ l.by \in Writers /\ l.no \in Nat
      /\ pc \in [Writers -> {"out", "count", "full", "push", "put"}]
      /\ \A w \in Writers : line[w].no \in Nat
  BY LineParts DEF TypeOK
<1>1. ASSUME NEW w \in Writers, Stamp(w) PROVE Past(l)'
  <2>1. /\ line'[w].no = line[w].no + 1
        /\ \A v \in Writers \ {w} : line'[v] = line[v] /\ pc'[v] = pc[v]
    <3>1. /\ line'[w].no = line[w].no + 1
          /\ \A v \in Writers \ {w} : line'[v] = line[v]
      BY <1>1, LineParts
    <3>2. pc' = [pc EXCEPT ![w] = "count"]
      BY <1>1 DEF Stamp
    <3> QED
      BY <1>t, <3>1, <3>2
  <2> QED
    BY <1>t, <2>1
<1>2. ASSUME NEW w \in Writers,
             line' = line /\ pc[w] # "out"
             /\ \A v \in Writers \ {w} : pc'[v] = pc[v]
      PROVE  Past(l)'
  BY <1>t, <1>2
<1>3. ASSUME NEW w \in Writers, Count(w) \/ NotFull(w) \/ Push(w) \/ PutSync(w)
      PROVE  Past(l)'
  <2>1. line' = line /\ pc[w] # "out" /\ \A v \in Writers \ {w} : pc'[v] = pc[v]
    BY <1>3, <1>t DEF Count, NotFull, Push, PutSync
  <2> QED
    BY <1>2, <2>1
<1>4. ASSUME UNCHANGED <<line, pc>> PROVE Past(l)'
  BY <1>4
<1> QED
  BY <1>1, <1>3, <1>4
     DEF Next, NextDay, async_write_log, write_log, Pop, PutAsync, vars

\* The lines the sequences have are lines.
LEMMA LinesAt ==
    ASSUME TypeOK
    PROVE  /\ \A i \in DOMAIN files : files[i].line \in Lines
           /\ \A i \in DOMAIN single_log : single_log[i] \in Lines
           /\ \A i \in DOMAIN m_log_queue : m_log_queue[i] \in Lines
<1> DEFINE Entries == [file : (0..MaxDay) \X Nat, line : Lines]
<1>1. files \in Seq(Entries) /\ single_log \in Seq(Lines)
      /\ m_log_queue \in Seq(Lines)
  BY DEF TypeOK
<1>2. \A i \in DOMAIN files : files[i] \in Entries
  <2> HIDE DEF Entries
  <2> QED
    BY <1>1
<1>3. /\ \A i \in DOMAIN single_log : single_log[i] \in Lines
      /\ \A i \in DOMAIN m_log_queue : m_log_queue[i] \in Lines
  BY <1>1
<1> QED
  BY <1>2, <1>3

\* push appends a line that is newer than all lines of its thread.
LEMMA PushOrder ==
    ASSUME OrderInv, [Next]_vars, NEW w \in Writers, Push(w)
    PROVE  AllPast' /\ InOrder'
<1>t. /\ m_log_queue \in Seq(Lines) /\ line[w] \in Lines
      /\ \A v \in Writers : line[v].no \in Nat
      /\ pc \in [Writers -> {"out", "count", "full", "push", "put"}]
      /\ \A l \in Lines : l.by \in Writers /\ l.no \in Nat
  BY LineParts DEF OrderInv, TypeOK
<1>p. /\ pc[w] = "push" /\ pc'[w] = "out" /\ line' = line /\ files' = files
      /\ single_log' = single_log /\ line[w].by = w
  BY <1>t DEF Push, OrderInv, Roles
<1>n. ASSUME NEW l \in Lines, Past(l) PROVE Past(l)' /\ Before(l, line[w])
  BY <1>n, <1>p, PastKept DEF OrderInv, Past, Before
<1>w. Past(line[w])'
  BY <1>t, <1>p DEF Past
<1>l. /\ \A i \in DOMAIN files : files[i].line \in Lines
      /\ \A i \in DOMAIN single_log : single_log[i] \in Lines
      /\ \A i \in DOMAIN m_log_queue : m_log_queue[i] \in Lines
  BY LinesAt DEF OrderInv
<1>1. CASE m_log_queue' = Append(m_log_queue, line[w])
  <2>1. /\ Len(m_log_queue) \in Nat /\ DOMAIN m_log_queue = 1..Len(m_log_queue)
        /\ DOMAIN m_log_queue' = 1..(Len(m_log_queue) + 1)
        /\ \A i \in 1..Len(m_log_queue) : m_log_queue'[i] = m_log_queue[i]
        /\ m_log_queue'[Len(m_log_queue) + 1] = line[w]
    BY <1>1, <1>t, AppendAt
  <2>2. \A i \in DOMAIN m_log_queue' : \/ i \in DOMAIN m_log_queue
                                       \/ i = Len(m_log_queue) + 1
    BY <2>1
  <2>3. AllPast'
    BY <1>p, <1>n, <1>w, <1>l, <2>1, <2>2 DEF OrderInv, AllPast
  <2>4. /\ \A i \in DOMAIN files, j \in DOMAIN m_log_queue' :
              Before(files[i].line, m_log_queue'[j])
        /\ \A i \in DOMAIN single_log, j \in DOMAIN m_log_queue' :
              Before(single_log[i], m_log_queue'[j])
    BY <1>n, <1>l, <2>1, <2>2 DEF OrderInv, AllPast, InOrder
  <2>5. \A i, j \in DOMAIN m_log_queue' :
              i < j => Before(m_log_queue'[i], m_log_queue'[j])
    <3> SUFFICES ASSUME NEW i \in DOMAIN m_log_queue',
                        NEW j \in DOMAIN m_log_queue', i < j
                 PROVE  Before(m_log_queue'[i], m_log_queue'[j])
      OBVIOUS
    <3>1. i \in 1..Len(m_log_queue) /\ m_log_queue'[i] = m_log_queue[i]
      BY <2>1
    <3>2. CASE j = Len(m_log_queue) + 1
      BY <1>n, <1>l, <2>1, <3>1, <3>2 DEF OrderInv, AllPast
    <3>3. CASE j \in 1..Len(m_log_queue)
      BY <2>1, <3>1, <3>3 DEF OrderInv, InOrder
    <3> QED
      BY <2>1, <2>2, <3>2, <3>3
  <2>6. InOrder'
    BY <1>p, <2>4, <2>5 DEF OrderInv, InOrder, Before
  <2> QED
    BY <2>3, <2>6
<1>2. CASE m_log_queue' = m_log_queue
  <2>1. AllPast'
    BY <1>2, <1>p, <1>n, <1>l DEF OrderInv, AllPast
  <2>2. InOrder'
    BY <1>2, <1>p DEF OrderInv, InOrder, Before
  <2> QED
    BY <2>1, <2>2
<1> QED
  BY <1>1, <1>2 DEF Push, enqueue

\* fputs without a queue: the line is newer than all lines of its thread.
LEMMA PutSyncOrder ==
    ASSUME OrderInv, [Next]_vars, NEW w \in Writers, PutSync(w)
    PROVE  AllPast' /\ InOrder'
<1> DEFINE Entries == [file : (0..MaxDay) \X Nat, line : Lines]
           e == [file |-> m_fp, line |-> line[w]]
<1>t. /\ files \in Seq(Entries) /\ e \in Entries /\ line[w] \in Lines
      /\ \A v \in Writers : line[v].no \in Nat
      /\ pc \in [Writers -> {"out", "count", "full", "push", "put"}]
      /\ \A l \in Lines : l.by \in Writers /\ l.no \in Nat
  BY LineParts DEF OrderInv, TypeOK
<1>p. /\ pc[w] = "put" /\ pc'[w] = "out" /\ line' = line
      /\ single_log' = <<>> /\ m_log_queue' = <<>> /\ line[w].by = w
  BY <1>t DEF PutSync, OrderInv, Roles
<1>n. ASSUME NEW l \in Lines, Past(l) PROVE Past(l)' /\ Before(l, line[w])
  BY <1>n, <1>p, PastKept DEF OrderInv, Past, Before
<1>w. Past(line[w])'
  BY <1>t, <1>p DEF Past
<1>l. \A i \in DOMAIN files : files[i].line \in Lines
  BY LinesAt DEF OrderInv
<1>1. /\ Len(files) \in Nat /\ DOMAIN files = 1..Len(files)
      /\ DOMAIN files' = 1..(Len(files) + 1)
      /\ \A i \in 1..Len(files) : files'[i] = files[i]
      /\ files'[Len(files) + 1].line = line[w]
  <2>1. files' = Append(files, e)
    BY DEF PutSync, fputs
  <2> HIDE DEF e, Entries
  <2>2. /\ Len(files) \in Nat /\ DOMAIN files = 1..Len(files)
        /\ DOMAIN files' = 1..(Len(files) + 1)
        /\ \A i \in 1..Len(files) : files'[i] = files[i]
        /\ files'[Len(files) + 1] = e
    BY <1>t, <2>1, AppendAt
  <2> QED
    BY <2>2 DEF e
<1>2. AllPast'
  <2>1. (\A i \in DOMAIN files : Past(files[i].line))'
    BY <1>n, <1>w, <1>l, <1>p, <1>1 DEF OrderInv, AllPast, Past
  <2> QED
    BY <1>p, <2>1, SingleAt DEF AllPast
<1>3. InOrder'
  <2>1. \A i, j \in DOMAIN files' :
            i < j => Before(files'[i].line, files'[j].line)
    <3> SUFFICES ASSUME NEW i \in DOMAIN files', NEW j \in DOMAIN files', i < j
                 PROVE  Before(files'[i].line, files'[j].line)
      OBVIOUS
    <3>1. i \in 1..Len(files) /\ files'[i] = files[i]
      BY <1>1
    <3>2. CASE j = Len(files) + 1
      BY <1>n, <1>l, <1>1, <3>1, <3>2 DEF OrderInv, AllPast
    <3>3. CASE j \in 1..Len(files)
      BY <1>1, <3>1, <3>3 DEF OrderInv, InOrder
    <3> QED
      BY <1>1, <3>2, <3>3
  <2> QED
    BY <1>p, <2>1, SingleAt DEF InOrder, Before
<1> QED
  BY <1>2, <1>3

\* The flush thread pops the oldest line of the queue.
LEMMA PopOrder ==
    ASSUME OrderInv, [Next]_vars, Pop PROVE AllPast' /\ InOrder'
<1>t. m_log_queue \in Seq(Lines) /\ m_log_queue # <<>>
  BY DEF OrderInv, TypeOK, Pop
<1>p. /\ pc' = pc /\ line' = line /\ files' = files
      /\ single_log = <<>> /\ single_log' = <<Head(m_log_queue)>>
      /\ m_log_queue' = Tail(m_log_queue)
  BY DEF Pop
<1>1. /\ Len(m_log_queue) \in Nat \ {0} /\ DOMAIN m_log_queue = 1..Len(m_log_queue)
      /\ DOMAIN m_log_queue' = 1..(Len(m_log_queue) - 1)
      /\ \A i \in 1..(Len(m_log_queue) - 1) : m_log_queue'[i] = m_log_queue[i + 1]
      /\ DOMAIN single_log' = {1} /\ single_log'[1] = m_log_queue[1]
  BY <1>t, <1>p, TailAt, SingleAt
<1>2. AllPast'
  <2>1. \A i \in DOMAIN m_log_queue : Past(m_log_queue[i])
    BY DEF OrderInv, AllPast
  <2>2. (\A i \in DOMAIN m_log_queue : Past(m_log_queue[i]))'
    BY <1>p, <1>1, <2>1 DEF Past
  <2>3. (\A i \in DOMAIN single_log : Past(single_log[i]))'
    BY <1>p, <1>1, <2>1 DEF Past
  <2>4. (\A i \in DOMAIN files : Past(files[i].line))'
    BY <1>p DEF OrderInv, AllPast, Past
  <2> QED
    BY <2>2, <2>3, <2>4 DEF AllPast
<1>3. InOrder'
  <2>1. /\ \A i \in DOMAIN files, j \in DOMAIN m_log_queue' :
              Before(files[i].line, m_log_queue'[j])
        /\ \A i \in DOMAIN files, j \in DOMAIN single_log' :
              Before(files[i].line, single_log'[j])
        /\ \A i, j \in DOMAIN files :
              i < j => Before(files[i].line, files[j].line)
    BY <1>1 DEF OrderInv, InOrder
  <2>2. /\ \A i \in DOMAIN single_log', j \in DOMAIN m_log_queue' :
              Before(single_log'[i], m_log_queue'[j])
        /\ \A i, j \in DOMAIN m_log_queue' :
              i < j => Before(m_log_queue'[i], m_log_queue'[j])
    <3>1. \A i, j \in DOMAIN m_log_queue :
              i < j => Before(m_log_queue[i], m_log_queue[j])
      BY DEF OrderInv, InOrder
    <3>2. \A i \in DOMAIN m_log_queue' :
              /\ i \in Int /\ 1 < i + 1 /\ i + 1 \in DOMAIN m_log_queue
              /\ m_log_queue'[i] = m_log_queue[i + 1]
      BY <1>1
    <3>3. 1 \in DOMAIN m_log_queue
      BY <1>1
    <3>4. ASSUME NEW i \in DOMAIN single_log', NEW j \in DOMAIN m_log_queue'
          PROVE  Before(single_log'[i], m_log_queue'[j])
      BY <1>1, <3>1, <3>2, <3>3
    <3>5. ASSUME NEW i \in DOMAIN m_log_queue', NEW j \in DOMAIN m_log_queue',
                 i < j
          PROVE  Before(m_log_queue'[i], m_log_queue'[j])
      <4>1. i + 1 < j + 1
        BY <3>2, <3>5
      <4> QED
        BY <3>1, <3>2, <4>1
    <3> QED
      BY <3>4, <3>5
  <2> QED
    BY <1>p, <2>1, <2>2 DEF InOrder, Before
<1> QED
  BY <1>2, <1>3

\* The flush thread writes the line it has popped.
LEMMA PutAsyncOrder ==
    ASSUME OrderInv, [Next]_vars, PutAsync PROVE AllPast' /\ InOrder'
<1> DEFINE Entries == [file : (0..MaxDay) \X Nat, line : Lines]
           e == [file |-> m_fp, line |-> Head(single_log)]
<1>t. single_log \in Seq(Lines) /\ single_log # <<>>
  BY DEF OrderInv, TypeOK, PutAsync
<1>h. /\ Head(single_log) \in Lines /\ Head(single_log) = single_log[1]
      /\ 1 \in DOMAIN single_log
  BY <1>t, TailAt
<1>p. /\ pc' = pc /\ line' = line /\ m_log_queue' = m_log_queue
      /\ single_log' = <<>> /\ DOMAIN single_log' = {}
  BY SingleAt DEF PutAsync
<1>1. /\ Len(files) \in Nat /\ DOMAIN files = 1..Len(files)
      /\ DOMAIN files' = 1..(Len(files) + 1)
      /\ \A i \in 1..Len(files) : files'[i] = files[i]
      /\ files'[Len(files) + 1].line = single_log[1]
  <2>1. files' = Append(files, e) /\ files \in Seq(Entries) /\ e \in Entries
    <3>1. files' = Append(files, e) /\ files \in Seq(Entries)
      BY DEF PutAsync, fputs, OrderInv, TypeOK
    <3>2. m_fp \in (0..MaxDay) \X Nat
      BY DEF OrderInv, TypeOK
    <3>3. e \in Entries
      BY <1>h, <3>2
    <3> QED
      BY <3>1, <3>3
  <2>2. e.line = single_log[1]
    BY <1>h
  <2> HIDE DEF e, Entries
  <2>3. /\ Len(files) \in Nat /\ DOMAIN files = 1..Len(files)
        /\ DOMAIN files' = 1..(Len(files) + 1)
        /\ \A i \in 1..Len(files) : files'[i] = files[i]
        /\ files'[Len(files) + 1] = e
    BY <2>1, AppendAt
  <2> QED
    BY <2>2, <2>3
<1>2. AllPast'
  <2>1. (\A i \in DOMAIN files : Past(files[i].line))'
    BY <1>h, <1>p, <1>1 DEF OrderInv, AllPast, Past
  <2>2. (\A i \in DOMAIN m_log_queue : Past(m_log_queue[i]))'
    BY <1>p DEF OrderInv, AllPast, Past
  <2> QED
    BY <1>p, <2>1, <2>2 DEF AllPast
<1>3. InOrder'
  <2>1. \A i, j \in DOMAIN files' :
            i < j => Before(files'[i].line, files'[j].line)
    <3> SUFFICES ASSUME NEW i \in DOMAIN files', NEW j \in DOMAIN files', i < j
                 PROVE  Before(files'[i].line, files'[j].line)
      OBVIOUS
    <3>1. i \in 1..Len(files) /\ files'[i] = files[i]
      BY <1>1
    <3>2. CASE j = Len(files) + 1
      BY <1>h, <1>1, <3>1, <3>2 DEF OrderInv, InOrder
    <3>3. CASE j \in 1..Len(files)
      BY <1>1, <3>1, <3>3 DEF OrderInv, InOrder
    <3> QED
      BY <1>1, <3>2, <3>3
  <2>2. \A i \in DOMAIN files', j \in DOMAIN m_log_queue :
            Before(files'[i].line, m_log_queue[j])
    <3> SUFFICES ASSUME NEW i \in DOMAIN files', NEW j \in DOMAIN m_log_queue
                 PROVE  Before(files'[i].line, m_log_queue[j])
      OBVIOUS
    <3>1. CASE i = Len(files) + 1
      BY <1>h, <1>1, <3>1 DEF OrderInv, InOrder
    <3>2. CASE i \in 1..Len(files)
      BY <1>1, <3>2 DEF OrderInv, InOrder
    <3> QED
      BY <1>1, <3>1, <3>2
  <2>3. \A i, j \in DOMAIN m_log_queue :
            i < j => Before(m_log_queue[i], m_log_queue[j])
    BY DEF OrderInv, InOrder
  <2> QED
    BY <1>p, <2>1, <2>2, <2>3 DEF InOrder, Before
<1> QED
  BY <1>2, <1>3

\* The order is an invariant.
LEMMA OrderInvariant == Spec => []OrderInv
<1>1. Init => OrderInv
  <2> SUFFICES ASSUME Init PROVE OrderInv
    OBVIOUS
  <2>1. DOMAIN files = {} /\ DOMAIN single_log = {} /\ DOMAIN m_log_queue = {}
    BY DEF Init
  <2> QED
    BY <2>1, RolesInitially DEF OrderInv, AllPast, InOrder
<1>2. OrderInv /\ [Next]_vars => OrderInv'
  <2> SUFFICES ASSUME OrderInv, [Next]_vars PROVE AllPast' /\ InOrder'
    BY RolesKept DEF OrderInv
  <2>1. ASSUME NEW w \in Writers, Push(w) PROVE AllPast' /\ InOrder'
    BY <2>1, PushOrder
  <2>2. ASSUME NEW w \in Writers, PutSync(w) PROVE AllPast' /\ InOrder'
    BY <2>2, PutSyncOrder
  <2>3. CASE Pop
    BY <2>3, PopOrder
  <2>4. CASE PutAsync
    BY <2>4, PutAsyncOrder
  <2>5. CASE UNCHANGED <<files, single_log, m_log_queue>>
    <3>1. \A l \in Lines : Past(l) => Past(l)'
      BY PastKept DEF OrderInv
    <3>2. /\ \A i \in DOMAIN files : files[i].line \in Lines
          /\ \A i \in DOMAIN single_log : single_log[i] \in Lines
          /\ \A i \in DOMAIN m_log_queue : m_log_queue[i] \in Lines
      BY LinesAt DEF OrderInv
    <3>3. AllPast'
      BY <2>5, <3>1, <3>2 DEF OrderInv, AllPast
    <3>4. InOrder'
      BY <2>5 DEF OrderInv, InOrder, Before
    <3> QED
      BY <3>3, <3>4
  <2> QED
    BY <2>1, <2>2, <2>3, <2>4, <2>5
       DEF Next, NextDay, async_write_log, write_log, Stamp, Count, NotFull,
           vars
<1> QED
  BY <1>1, <1>2, PTL DEF Spec

\* A thread's lines are written in the order in which it logged them, and none
\* of them twice, through the queue or without it.
THEOREM LinesInOrder == Spec => []WriterOrder
<1>1. OrderInv => WriterOrder
  BY DEF OrderInv, InOrder, Before, WriterOrder
<1> QED
  BY <1>1, OrderInvariant, PTL

\* The one logging thread, if there is only one.
LEMMA OnlyOne ==
    ASSUME TypeOK, OneLogger
    PROVE  \A v, w \in loggers : v = w
<1>1. IsFiniteSet(loggers)
  BY AsyncLogAssumption, FS_Subset DEF TypeOK
<1>2. \E x : loggers = {x}
  BY <1>1, FS_Singleton DEF OneLogger
<1> QED
  BY <1>2

\* Every step of a system with one logging thread keeps the room it has seen.
LEMMA PushInductive == ASSUME PushInv, [Next]_vars PROVE PushInv'
<1>t. TypeOK' /\ Roles'
  BY RolesKept DEF PushInv
<1> SUFFICES ASSUME OneLogger'
             PROVE  lost' = {} /\ \A w \in Writers : pc'[w] = "push" => Room'
  BY <1>t DEF PushInv, RoomForPush, NoneLost
<1>o. OneLogger /\ loggers' = loggers
  BY DEF OneLogger, Next, NextDay, async_write_log, write_log, Stamp, Count,
         NotFull, Push, PutSync, Pop, PutAsync, logVars, settings, vars
<1>i. /\ lost = {} /\ \A w \in Writers : pc[w] = "push" => Room
      /\ pc \in [Writers -> {"out", "count", "full", "push", "put"}]
      /\ m_log_queue \in Seq(Lines) /\ Len(m_log_queue) \in Nat
      /\ max_queue_size \in Nat
  BY <1>o, LenProperties, AsyncLogAssumption
     DEF PushInv, RoomForPush, NoneLost, TypeOK
<1> DEFINE Goal == lost' = {} /\ \A w \in Writers : pc'[w] = "push" => Room'
<1>1. ASSUME NEW w \in Writers, NotFull(w) PROVE Goal
  BY <1>1, <1>i DEF NotFull, Room
<1>2. ASSUME NEW w \in Writers, Push(w) PROVE Goal
  <2>1. \A v \in Writers : v # w => pc[v] = "out"
    BY <1>2, <1>o, <1>i, OnlyOne DEF PushInv, Roles, Push
  <2> QED
    BY <1>2, <1>i, <2>1 DEF Push
<1>3. ASSUME NEW w \in Writers, Stamp(w) \/ Count(w) \/ PutSync(w) PROVE Goal
  BY <1>3, <1>i DEF Stamp, Count, PutSync, Room
<1>4. ASSUME Pop PROVE Goal
  <2>1. Len(m_log_queue') = Len(m_log_queue) - 1
    BY <1>4, <1>i, TailAt DEF Pop
  <2> QED
    BY <1>4, <1>i, <2>1 DEF Pop, Room
<1>5. ASSUME UNCHANGED <<pc, lost, m_log_queue>> PROVE Goal
  BY <1>5, <1>i DEF Room
<1> QED
  BY <1>1, <1>2, <1>3, <1>4, <1>5
     DEF Next, NextDay, async_write_log, write_log, PutAsync, vars

\* With one logging thread no push fails: nobody can take the slot that full()
\* has seen free.
THEOREM NoLineLost == Spec => []NoneLost
<1>1. Init => PushInv
  BY RolesInitially DEF Init, PushInv, RoomForPush, NoneLost
<1>2. PushInv /\ [Next]_vars => PushInv'
  BY PushInductive
<1>3. PushInv => NoneLost
  BY DEF PushInv
<1> QED
  BY <1>1, <1>2, <1>3, PTL DEF Spec

\* m_count goes up by one: the file is full and the next suffix begins, or the
\* suffix stays.
LEMMA NextCount ==
    ASSUME NEW n \in Nat, NEW s \in Nat \ {0}
    PROVE  /\ n \div s \in Nat /\ n % s \in 0..(s - 1)
           /\ 0 \div s = 0 /\ 0 % s = 0
           /\ (n + 1) % s = 0 => (n + 1) \div s = (n \div s) + 1
           /\ (n + 1) % s # 0 => /\ (n + 1) \div s = n \div s
                                 /\ (n + 1) % s = (n % s) + 1
OBVIOUS

\* A file has finitely many lines.
LEMMA PlacesCount ==
    ASSUME TypeOK, NEW f PROVE IsFiniteSet(PlacesOf(f))
                               /\ Cardinality(PlacesOf(f)) \in Nat
<1>1. DOMAIN files = 1..Len(files) /\ Len(files) \in Nat
  BY LenProperties DEF TypeOK
<1>2. IsFiniteSet(1..Len(files))
  BY <1>1, FS_Interval
<1>3. IsFiniteSet(PlacesOf(f))
  BY <1>1, <1>2, FS_Subset DEF PlacesOf
<1> QED
  BY <1>3, FS_CardinalityType

\* fputs adds one line to the open file.
LEMMA PlacesPut ==
    ASSUME TypeOK, NEW w \in Writers, PutSync(w)
    PROVE  /\ Len(files) \in Nat /\ DOMAIN files = 1..Len(files)
           /\ DOMAIN files' = 1..(Len(files) + 1)
           /\ \A i \in 1..Len(files) : files'[i] = files[i]
           /\ files'[Len(files) + 1].file = m_fp
           /\ files'[Len(files) + 1].line = line[w]
           /\ Cardinality(PlacesOf(m_fp)') = Cardinality(PlacesOf(m_fp)) + 1
           /\ \A f : f # m_fp => PlacesOf(f)' = PlacesOf(f)
<1> DEFINE Entries == [file : (0..MaxDay) \X Nat, line : Lines]
           e == [file |-> m_fp, line |-> line[w]]
<1>1. files' = Append(files, e) /\ files \in Seq(Entries)
  BY DEF PutSync, fputs, TypeOK
<1>2. e \in Entries /\ e.file = m_fp /\ e.line = line[w]
  <2>1. m_fp \in (0..MaxDay) \X Nat /\ line[w] \in Lines
    BY LineParts DEF TypeOK
  <2> QED
    BY <2>1
<1> HIDE DEF e, Entries
<1>3. /\ Len(files) \in Nat /\ DOMAIN files = 1..Len(files)
      /\ DOMAIN files' = 1..(Len(files) + 1)
      /\ \A i \in 1..Len(files) : files'[i] = files[i]
      /\ files'[Len(files) + 1] = e
  BY <1>1, <1>2, AppendAt
<1>4. m_fp' = m_fp
  BY DEF PutSync, logVars
<1>5. PlacesOf(m_fp)' = PlacesOf(m_fp) \cup {Len(files) + 1}
      /\ Len(files) + 1 \notin PlacesOf(m_fp)
  BY <1>2, <1>3, <1>4 DEF PlacesOf
<1>6. Cardinality(PlacesOf(m_fp)') = Cardinality(PlacesOf(m_fp)) + 1
  BY <1>5, PlacesCount, FS_AddElement
<1>7. ASSUME NEW f, f # m_fp PROVE PlacesOf(f)' = PlacesOf(f)
  BY <1>2, <1>3, <1>7 DEF PlacesOf
<1> QED
  BY <1>2, <1>3, <1>6, <1>7

\* The rotation of the files, with one thread and no queue.
Counted ==
    /\ TypeOK /\ Roles /\ DaysPast
    /\ OneLogger /\ ~m_is_async /\ Rotation /\ FilesKept

\* m_count++ and the change of files.
LEMMA CountRotates ==
    ASSUME Counted, TypeOK', NEW w \in Writers, Count(w)
    PROVE  Rotation' /\ FilesKept'
<1> USE AsyncLogAssumption
<1> DEFINE d == line[w].day
<1>t. /\ m_count \in Nat /\ m_today \in Nat /\ d \in Nat
      /\ m_split_lines \in Nat \ {0}
      /\ pc \in [Writers -> {"out", "count", "full", "push", "put"}]
      /\ loggers \subseteq Writers
  <2>1. TypeOK
    BY DEF Counted
  <2>2. d \in Nat
    BY <2>1, LineParts
  <2>3. m_count \in Nat /\ m_today \in Nat
    BY <2>1 DEF TypeOK
  <2>4. /\ pc \in [Writers -> {"out", "count", "full", "push", "put"}]
        /\ loggers \subseteq Writers
    BY <2>1 DEF TypeOK
  <2> QED
    BY <2>2, <2>3, <2>4
<1>c. /\ pc[w] = "count" /\ pc' = [pc EXCEPT ![w] = "put"]
      /\ line' = line /\ files' = files
      /\ loggers' = loggers /\ m_is_async' = m_is_async
  BY DEF Count, Counted, settings
<1>o. w \in loggers /\ \A v \in loggers : v = w
  BY <1>c, OnlyOne DEF Counted, Roles
<1>i. /\ m_fp = <<m_today, m_count \div m_split_lines>>
      /\ m_today <= d
      /\ \A i \in DOMAIN files :
            /\ files[i].file[1] <= m_today
            /\ files[i].file[1] = m_today =>
                  files[i].file[2] <= m_count \div m_split_lines
            /\ files[i].file[1] \in Nat /\ files[i].file[2] \in Nat
      /\ Cardinality(PlacesOf(m_fp)) <= (m_count % m_split_lines) + 1
  <2>1. \A i \in DOMAIN files : files[i].file \in (0..MaxDay) \X Nat
    <3> DEFINE Entries == [file : (0..MaxDay) \X Nat, line : Lines]
    <3>1. files \in Seq(Entries)
      BY DEF Counted, TypeOK
    <3>2. \A i \in DOMAIN files : files[i] \in Entries
      <4> HIDE DEF Entries
      <4> QED
        BY <3>1
    <3> QED
      BY <3>2
  <2>2. \A i \in DOMAIN files : files[i].file[1] \in Nat /\ files[i].file[2] \in Nat
    BY <2>1
  <2> QED
    BY <1>o, <2>2 DEF Counted, Rotation
<1>n. /\ m_count \div m_split_lines \in Nat
      /\ m_count % m_split_lines \in 0..(m_split_lines - 1)
      /\ 0 \div m_split_lines = 0 /\ 0 % m_split_lines = 0
      /\ (m_count + 1) % m_split_lines = 0 =>
            (m_count + 1) \div m_split_lines = (m_count \div m_split_lines) + 1
      /\ (m_count + 1) % m_split_lines # 0 =>
            /\ (m_count + 1) \div m_split_lines = m_count \div m_split_lines
            /\ (m_count + 1) % m_split_lines = (m_count % m_split_lines) + 1
  BY <1>t, NextCount
<1>p. \A f : PlacesOf(f)' = PlacesOf(f)
  BY <1>c DEF PlacesOf
<1>k. Cardinality(PlacesOf(m_fp)) \in Nat
  BY PlacesCount DEF Counted
<1>f. FilesKept'
  BY <1>c, <1>p DEF Counted, FilesKept, LinesIn, OneLogger, PlacesOf
<1> DEFINE FpIs == m_fp' = <<m_today', m_count' \div m_split_lines>>
           NoLater == \A i \in DOMAIN files :
                         /\ files[i].file[1] <= m_today'
                         /\ files[i].file[1] = m_today' =>
                              files[i].file[2] <= m_count' \div m_split_lines
           Bounded == Cardinality(PlacesOf(m_fp')) <= m_count' % m_split_lines
<1>1. ASSUME m_today # d PROVE FpIs /\ NoLater /\ Bounded /\ m_today' = d
  <2>1. m_today' = d /\ m_count' = 0 /\ m_fp' = <<d, 0>>
    BY <1>1 DEF Count
  <2>2. PlacesOf(<<d, 0>>) = {}
    BY <1>1, <1>t, <1>i DEF PlacesOf
  <2>3. Cardinality(PlacesOf(m_fp')) = 0
    BY <2>1, <2>2, FS_EmptySet
  <2>4. FpIs /\ Bounded /\ m_today' = d
    BY <1>n, <2>1, <2>3
  <2>5. NoLater
    BY <1>1, <1>t, <1>i, <2>1
  <2> QED
    BY <2>4, <2>5
<1>2. ASSUME m_today = d, FileFull(m_count + 1)
      PROVE  FpIs /\ NoLater /\ Bounded /\ m_today' = d
  <2>1. /\ m_today' = d /\ m_count' = m_count + 1
        /\ m_fp' = <<d, (m_count + 1) \div m_split_lines>>
    BY <1>2 DEF Count
  <2>2. /\ (m_count + 1) % m_split_lines = 0
        /\ (m_count + 1) \div m_split_lines = (m_count \div m_split_lines) + 1
    BY <1>2, <1>n DEF FileFull
  <2>3. PlacesOf(m_fp') = {}
    BY <1>2, <1>n, <1>i, <2>1, <2>2 DEF PlacesOf
  <2>4. Cardinality(PlacesOf(m_fp')) = 0
    BY <2>3, FS_EmptySet
  <2>5. FpIs /\ Bounded /\ m_today' = d
    BY <2>1, <2>2, <2>4
  <2>6. NoLater
    BY <1>2, <1>n, <1>i, <2>1, <2>2
  <2> QED
    BY <2>5, <2>6
<1>3. ASSUME m_today = d, ~FileFull(m_count + 1)
      PROVE  FpIs /\ NoLater /\ Bounded /\ m_today' = d
  <2>1. m_today' = m_today /\ m_count' = m_count + 1 /\ m_fp' = m_fp
    BY <1>3 DEF Count
  <2>2. /\ (m_count + 1) \div m_split_lines = m_count \div m_split_lines
        /\ (m_count + 1) % m_split_lines = (m_count % m_split_lines) + 1
    BY <1>3, <1>n DEF FileFull
  <2>3. FpIs /\ NoLater /\ m_today' = d
    BY <1>3, <1>i, <2>1, <2>2
  <2>4. Bounded
    BY <1>i, <2>1, <2>2
  <2> QED
    BY <2>3, <2>4
<1>4. FpIs /\ NoLater /\ Bounded /\ m_today' = d
  BY <1>1, <1>2, <1>3
<1>5. /\ \A v \in loggers' : m_today' <= line'[v].day
      /\ \A v \in loggers' : pc'[v] # "count" => m_today' = line'[v].day
  BY <1>t, <1>c, <1>o, <1>4
<1>6. /\ Cardinality(PlacesOf(m_fp)') <= m_count' % m_split_lines
      /\ Cardinality(PlacesOf(m_fp)') <= (m_count' % m_split_lines) + 1
  <2>1. PlacesOf(m_fp)' = PlacesOf(m_fp')
    BY <1>c DEF PlacesOf
  <2>2. Cardinality(PlacesOf(m_fp)') <= m_count' % m_split_lines
    BY <1>4, <2>1
  <2>3. m_count' \in Nat
    BY DEF TypeOK
  <2>4. m_count' % m_split_lines \in Int
    BY <1>t, <2>3
  <2>5. Cardinality(PlacesOf(m_fp')) \in Nat
    BY PlacesCount DEF Counted
  <2> QED
    BY <2>1, <2>2, <2>4, <2>5
<1>r. Rotation'
  BY <1>c, <1>4, <1>5, <1>6 DEF Rotation
<1> QED
  BY <1>f, <1>r

\* fputs of the line that was counted.
LEMMA PutRotates ==
    ASSUME Counted, TypeOK', NEW w \in Writers, PutSync(w)
    PROVE  Rotation' /\ FilesKept'
<1> USE AsyncLogAssumption
<1>t. /\ m_count \in Nat /\ m_today \in Nat /\ m_split_lines \in Nat \ {0}
      /\ pc \in [Writers -> {"out", "count", "full", "push", "put"}]
      /\ loggers \subseteq Writers
  <2>1. TypeOK
    BY DEF Counted
  <2>2. m_count \in Nat /\ m_today \in Nat
    BY <2>1 DEF TypeOK
  <2>3. /\ pc \in [Writers -> {"out", "count", "full", "push", "put"}]
        /\ loggers \subseteq Writers
    BY <2>1 DEF TypeOK
  <2> QED
    BY <2>2, <2>3
<1>c. /\ pc[w] = "put" /\ pc' = [pc EXCEPT ![w] = "out"] /\ line' = line
      /\ UNCHANGED <<loggers, m_is_async, m_today, m_count, m_fp>>
  BY DEF PutSync, logVars, settings
<1>o. w \in loggers /\ \A v \in loggers : v = w
  BY <1>c, OnlyOne DEF Counted, Roles
<1>i. /\ m_fp = <<m_today, m_count \div m_split_lines>>
      /\ m_today = line[w].day
      /\ \A i \in DOMAIN files :
            /\ files[i].file[1] <= m_today
            /\ files[i].file[1] = m_today =>
                  files[i].file[2] <= m_count \div m_split_lines
      /\ Cardinality(PlacesOf(m_fp)) <= m_count % m_split_lines
      /\ \A i \in DOMAIN files :
            /\ Cardinality(PlacesOf(files[i].file)) <= m_split_lines
            /\ files[i].file[1] = files[i].line.day
  BY <1>c, <1>o DEF Counted, Rotation, FilesKept, LinesIn, PlacesOf
<1>n. /\ m_count % m_split_lines \in 0..(m_split_lines - 1)
      /\ m_count \div m_split_lines \in Nat
  BY <1>t, NextCount
<1>p. /\ Len(files) \in Nat /\ DOMAIN files = 1..Len(files)
      /\ DOMAIN files' = 1..(Len(files) + 1)
      /\ \A i \in 1..Len(files) : files'[i] = files[i]
      /\ files'[Len(files) + 1].file = m_fp
      /\ files'[Len(files) + 1].line = line[w]
      /\ Cardinality(PlacesOf(m_fp)') = Cardinality(PlacesOf(m_fp)) + 1
      /\ \A f : f # m_fp => PlacesOf(f)' = PlacesOf(f)
  BY PlacesPut DEF Counted
<1>k. Cardinality(PlacesOf(m_fp)) \in Nat
  BY PlacesCount DEF Counted
<1>b. Cardinality(PlacesOf(m_fp)') <= (m_count % m_split_lines) + 1
      /\ Cardinality(PlacesOf(m_fp)') <= m_split_lines
  <2> DEFINE r == m_count % m_split_lines
             k == Cardinality(PlacesOf(m_fp))
             l == Cardinality(PlacesOf(m_fp)')
  <2>1. k \in Nat /\ k <= r /\ l = k + 1
    BY <1>k, <1>i, <1>p
  <2>2. r \in 0..(m_split_lines - 1) /\ m_split_lines \in Nat
    BY <1>n, <1>t
  <2> HIDE DEF r, k, l
  <2>3. l <= r + 1 /\ l <= m_split_lines
    BY ONLY <2>1, <2>2
  <2> QED
    BY ONLY <2>3 DEF r, l
<1>1. ASSUME NEW i \in DOMAIN files'
      PROVE  /\ files'[i].file[1] <= m_today
             /\ files'[i].file[1] = m_today =>
                  files'[i].file[2] <= m_count \div m_split_lines
             /\ files'[i].file[1] = files'[i].line.day
  <2>1. CASE i \in 1..Len(files)
    BY <1>i, <1>p, <2>1
  <2>2. CASE i = Len(files) + 1
    BY <1>i, <1>n, <1>p, <1>t, <2>2
  <2> QED
    BY <1>p, <2>1, <2>2
<1>2. ASSUME NEW i \in DOMAIN files'
      PROVE  Cardinality({j \in DOMAIN files' : files'[j].file = files'[i].file})
                 <= m_split_lines
  <2>1. CASE files'[i].file = m_fp
    <3>1. {j \in DOMAIN files' : files'[j].file = files'[i].file}
             = PlacesOf(m_fp)'
      BY ONLY <1>c, <2>1 DEF PlacesOf
    <3> QED
      BY ONLY <1>b, <3>1
  <2>2. CASE files'[i].file # m_fp
    <3>1. i \in 1..Len(files) /\ files'[i] = files[i]
      BY <1>p, <2>2
    <3>2. {j \in DOMAIN files' : files'[j].file = files[i].file}
             = PlacesOf(files[i].file)
      BY <1>p, <2>2, <3>1 DEF PlacesOf
    <3>3. i \in DOMAIN files
      BY <1>p, <3>1
    <3>4. Cardinality(PlacesOf(files[i].file)) <= m_split_lines
      BY ONLY <1>i, <3>3
    <3> QED
      BY ONLY <3>1, <3>2, <3>4
  <2> QED
    BY <2>1, <2>2
<1>f. FilesKept'
  BY <1>1, <1>2 DEF FilesKept, LinesIn
<1>r. Rotation'
  BY <1>t, <1>c, <1>o, <1>i, <1>b, <1>1 DEF Rotation
<1> QED
  BY <1>f, <1>r

\* Every step keeps the rotation.
LEMMA FilesInductive == ASSUME FilesInv, [Next]_vars PROVE FilesInv'
<1> USE DEF logVars, settings
<1>t. TypeOK' /\ Roles'
  BY RolesKept DEF FilesInv
<1>d. DaysPast'
  <2>t. /\ now \in Nat /\ \A w \in Writers : line[w].day \in Nat
        /\ \A w \in Writers : line[w].day <= now
    BY LineParts, AsyncLogAssumption DEF FilesInv, TypeOK, DaysPast
  <2>1. ASSUME NEW w \in Writers, Stamp(w) PROVE DaysPast'
    <3>1. /\ line'[w].day = now /\ now' = now
          /\ \A v \in Writers \ {w} : line'[v] = line[v]
      BY <2>1, LineParts DEF FilesInv, Stamp
    <3> QED
      BY <2>t, <3>1 DEF DaysPast
  <2>2. CASE NextDay
    BY <2>t, <2>2 DEF NextDay, DaysPast
  <2>3. CASE UNCHANGED <<line, now>>
    BY <2>t, <2>3 DEF DaysPast
  <2> QED
    BY <2>1, <2>2, <2>3
       DEF Next, async_write_log, write_log, Count, NotFull, Push, PutSync,
           Pop, PutAsync, vars
<1>o. loggers' = loggers /\ m_is_async' = m_is_async
  BY DEF Next, NextDay, async_write_log, write_log, Stamp, Count, NotFull,
         Push, PutSync, Pop, PutAsync, vars
<1>r. ASSUME OneLogger, ~m_is_async PROVE Rotation' /\ FilesKept'
  <2>c. Counted
    BY <1>r DEF FilesInv, Counted
  <2>1. ASSUME NEW w \in Writers, Count(w) PROVE Rotation' /\ FilesKept'
    BY <1>t, <2>c, <2>1, CountRotates
  <2>2. ASSUME NEW w \in Writers, PutSync(w) PROVE Rotation' /\ FilesKept'
    BY <1>t, <2>c, <2>2, PutRotates
  <2>3. ASSUME NEW w \in Writers, Stamp(w) PROVE Rotation' /\ FilesKept'
    <3>1. /\ pc' = [pc EXCEPT ![w] = "count"]
          /\ UNCHANGED <<loggers, m_is_async, m_today, m_count, m_fp, files>>
      BY <2>3 DEF Stamp
    <3>2. /\ line'[w].day = now /\ line[w].day <= now
          /\ \A v \in Writers \ {w} : line'[v] = line[v]
          /\ now \in Nat /\ line[w].day \in Nat /\ m_today \in Nat
      BY <2>3, LineParts, AsyncLogAssumption DEF FilesInv, DaysPast, TypeOK
    <3>3. pc \in [Writers -> {"out", "count", "full", "push", "put"}]
          /\ loggers \subseteq Writers
      BY DEF FilesInv, TypeOK
    <3>4. /\ \A v \in loggers : m_today <= line'[v].day
          /\ \A v \in loggers : pc'[v] # "count" => m_today = line'[v].day
          /\ \A v \in loggers : pc'[v] = "put" => pc[v] = "put"
      BY <1>r, <3>1, <3>2, <3>3 DEF FilesInv, Rotation
    <3>5. \A f : PlacesOf(f)' = PlacesOf(f)
      BY <3>1 DEF PlacesOf
    <3>6. PlacesOf(m_fp)' = PlacesOf(m_fp)
      BY <3>1 DEF PlacesOf
    <3>7. Rotation'
      BY <1>r, <3>1, <3>4, <3>6 DEF FilesInv, Rotation
    <3>8. FilesKept'
      BY <3>1 DEF FilesInv, FilesKept, LinesIn, OneLogger
    <3> QED
      BY <3>7, <3>8
  <2>4. ASSUME UNCHANGED <<pc, line, m_today, m_count, m_fp, files>>
        PROVE  Rotation' /\ FilesKept'
    <3>1. PlacesOf(m_fp)' = PlacesOf(m_fp)
      BY <2>4 DEF PlacesOf
    <3>2. Rotation'
      BY <1>r, <1>o, <2>4, <3>1 DEF FilesInv, Rotation, OneLogger
    <3>3. FilesKept'
      BY <1>o, <2>4 DEF FilesInv, FilesKept, LinesIn, OneLogger
    <3> QED
      BY <3>2, <3>3
  <2>5. \A w \in Writers : ~NotFull(w) /\ ~Push(w)
    BY <1>r DEF FilesInv, Roles, NotFull, Push
  <2>6. ~Pop /\ ~PutAsync
    BY <1>r DEF FilesInv, Roles, Pop, PutAsync
  <2> QED
    BY <2>1, <2>2, <2>3, <2>4, <2>5, <2>6
       DEF Next, NextDay, async_write_log, write_log, vars
<1>n. ASSUME ~(OneLogger /\ ~m_is_async) PROVE Rotation' /\ FilesKept'
  BY <1>n, <1>o DEF Rotation, FilesKept, OneLogger
<1> QED
  BY <1>t, <1>d, <1>r, <1>n DEF FilesInv

\* One thread that logs without a queue gets the files Log promises: none has
\* more than m_split_lines lines, and each line is in a file of its day.
THEOREM FilesAsPromised == Spec => []FilesKept
<1>1. Init => FilesInv
  <2> SUFFICES ASSUME Init PROVE FilesInv
    OBVIOUS
  <2>1. DOMAIN files = {} /\ PlacesOf(m_fp) = {}
    BY DEF Init, PlacesOf
  <2>2. Cardinality(PlacesOf(m_fp)) = 0
    BY <2>1, FS_EmptySet
  <2>3. 0 \div m_split_lines = 0 /\ 0 % m_split_lines = 0
    BY NextCount, AsyncLogAssumption
  <2>4. \A w \in Writers : line[w].day = 0
    BY DEF Init
  <2>5. DaysPast
    <3>1. now = 0
      BY DEF Init
    <3> QED
      BY <2>4, <3>1 DEF DaysPast
  <2>6. FilesKept
    BY <2>1 DEF FilesKept
  <2>7. Rotation
    BY <2>1, <2>2, <2>3, <2>4 DEF Init, Rotation
  <2> QED
    BY <2>5, <2>6, <2>7, RolesInitially DEF FilesInv
<1>2. FilesInv /\ [Next]_vars => FilesInv'
  BY FilesInductive
<1>3. FilesInv => FilesKept
  BY DEF FilesInv
<1> QED
  BY <1>1, <1>2, <1>3, PTL DEF Spec
-----------------------------------------------------------------------------
(* BlockQueue, of the same size.  Its pc is called qpc here, and what it   *)
(* assumes of its constants is a hypothesis.                               *)

CONSTANTS Producers, None, MaxPushes
VARIABLES m_mutex, qpc, item, pushes

Q == INSTANCE BlockQueue WITH pc <- qpc

\* A thread that works on the array owns the mutex, so there is one at most.
MutexHeld ==
    \A t \in Producers \cup Consumers :
        qpc[t] \in {"push", "test", "take"} => m_mutex = t

\* push has an item, and the test of m_size still holds when pop takes one.
PushHasItem == \A p \in Producers : qpc[p] = "push" => item[p] \in Items
TakeFindsItem == \A c \in Consumers : qpc[c] = "take" => m_size > 0

\* The slot of the k-th item, counted from the oldest.
Slot(k) == IF m_front + k < m_max_size THEN m_front + k
                                       ELSE m_front + k - m_max_size

\* m_back is the slot of the newest item, or m_front if there is none.
BackAgrees == m_back = Slot(m_size)

\* The slots between m_front and m_back have been written.
SlotsFilled == \A k \in 1..m_size : m_array[Slot(k)] \in Items

\* The inductive invariant.
QueueInv ==
    /\ Q!TypeOK /\ MutexHeld /\ PushHasItem /\ TakeFindsItem
    /\ BackAgrees /\ SlotsFilled

\* The remainders push and pop compute: the index wraps around once.
LEMMA Wrap ==
    ASSUME Q!BlockQueueAssumption,
           NEW a \in Int, NEW b \in Int, 0 <= a + b, a + b < 2 * m_max_size
    PROVE  (a + b) % m_max_size = IF a + b < m_max_size THEN a + b
                                                       ELSE a + b - m_max_size
<1> DEFINE x == a + b
<1>1. x \in Int /\ 0 <= x /\ x < 2 * m_max_size
  OBVIOUS
<1> HIDE DEF x
<1>2. x % m_max_size = IF x < m_max_size THEN x ELSE x - m_max_size
  BY <1>1 DEF Q!BlockQueueAssumption
<1> QED
  BY <1>2 DEF Q!BlockQueueAssumption, x

\* The content of the queue, slot by slot.
ContentInSlots ==
    /\ Content \in Seq(Items \cup {None}) /\ Len(Content) = m_size
    /\ DOMAIN Content = 1..m_size
    /\ \A k \in 1..m_size : /\ Slot(k) \in Q!Slots
                            /\ Content[k] = m_array[Slot(k)]

\* It follows from the types of the array and of its indexes.
LEMMA ContentSlots ==
    ASSUME Q!BlockQueueAssumption, Q!TypeOK PROVE ContentInSlots
<1> USE DEF Q!BlockQueueAssumption
<1>1. /\ m_size \in 0..m_max_size /\ m_front \in -1..(m_max_size - 1)
      /\ m_array \in [0..(m_max_size - 1) -> Items \cup {None}]
      /\ m_max_size \in Nat \ {0}
  BY DEF Q!TypeOK, Q!Slots
<1>2. ASSUME NEW k \in 1..m_size
      PROVE  Slot(k) \in 0..(m_max_size - 1)
             /\ (m_front + k) % m_max_size = Slot(k)
  <2>1. m_front \in Int /\ k \in Int /\ 0 <= m_front + k /\ m_front + k < 2 * m_max_size
    BY <1>1
  <2>2. (m_front + k) % m_max_size = Slot(k)
    BY <2>1, Wrap DEF Slot
  <2>3. Slot(k) \in 0..(m_max_size - 1)
    BY <1>1, <2>1 DEF Slot
  <2> QED
    BY <2>2, <2>3
<1>3. \A k \in 1..m_size : m_array[(m_front + k) % m_max_size] \in Items \cup {None}
  BY <1>1, <1>2
<1>4. Content \in [1..m_size -> Items \cup {None}]
  BY <1>3 DEF Content
<1>5. Content \in Seq(Items \cup {None}) /\ Len(Content) = m_size
  BY <1>1, <1>4
<1> QED
  BY <1>2, <1>4, <1>5 DEF Content, Q!Slots, ContentInSlots

\* The same in the state after a step.
LEMMA ContentSlotsAfter ==
    ASSUME Q!BlockQueueAssumption PROVE Q!TypeOK' => ContentInSlots'
<1>1. Q!TypeOK => ContentInSlots
  BY ContentSlots
<1> QED
  BY <1>1, PTL

\* The invariant holds in the beginning, with an empty queue.
LEMMA QueueInitially ==
    ASSUME Q!BlockQueueAssumption, Q!Init PROVE QueueInv
<1> USE DEF Q!BlockQueueAssumption, Q!Init
<1>1. Q!TypeOK
  BY DEF Q!TypeOK, Q!Slots
<1>2. MutexHeld /\ PushHasItem /\ TakeFindsItem
  BY DEF MutexHeld, PushHasItem, TakeFindsItem
<1>3. BackAgrees /\ SlotsFilled
  BY DEF BackAgrees, SlotsFilled, Slot
<1> QED
  BY <1>1, <1>2, <1>3 DEF QueueInv

\* push stores its item in the slot behind the last one, which no item is in.
LEMMA StoreSlot ==
    ASSUME Q!BlockQueueAssumption,
           QueueInv, NEW p \in Producers, Q!PushStores(p)
    PROVE  /\ m_back' \in Q!Slots /\ m_size' = m_size + 1 /\ m_front' = m_front
           /\ m_size < m_max_size /\ m_back' = Slot(m_size + 1)
           /\ m_array' = [m_array EXCEPT ![m_back'] = item[p]]
           /\ \A k \in 1..m_size : Slot(k) # m_back'
           /\ \A k \in 1..m_size' : Slot(k)' = Slot(k)
<1> USE DEF Q!BlockQueueAssumption
<1>1. /\ m_size \in 0..m_max_size /\ m_front \in -1..(m_max_size - 1)
      /\ m_max_size \in Nat \ {0} /\ m_back = Slot(m_size)
  BY DEF QueueInv, Q!TypeOK, Q!Slots, BackAgrees
<1>2. /\ m_size' = m_size + 1 /\ m_front' = m_front /\ m_size < m_max_size
      /\ m_array' = [m_array EXCEPT ![m_back'] = item[p]]
      /\ m_back' = (m_back + 1) % m_max_size
  BY DEF Q!PushStores
<1>3. m_back \in Int /\ 0 <= m_back + 1 /\ m_back + 1 < 2 * m_max_size
  BY <1>1, <1>2 DEF Slot
<1>4. m_back' = Slot(m_size + 1)
  <2>1. m_back' = IF m_back + 1 < m_max_size THEN m_back + 1
                                            ELSE m_back + 1 - m_max_size
    BY <1>2, <1>3, Wrap
  <2> QED
    BY <1>1, <1>2, <2>1 DEF Slot
<1>5. Slot(m_size + 1) \in 0..(m_max_size - 1)
  BY <1>1, <1>2 DEF Slot
<1>6. \A k \in 1..m_size : Slot(k) # Slot(m_size + 1)
  BY <1>1, <1>2 DEF Slot
<1>7. \A k \in 1..m_size' : Slot(k)' = Slot(k)
  BY <1>2 DEF Slot
<1> QED
  BY <1>2, <1>4, <1>5, <1>6, <1>7 DEF Q!Slots

\* pop reads the slot of the oldest item, and the others move up.
LEMMA TakeSlot ==
    ASSUME Q!BlockQueueAssumption,
           QueueInv, NEW c \in Consumers, Q!PopTake(c)
    PROVE  /\ m_front' \in Q!Slots /\ m_size \in 1..m_max_size
           /\ m_size' = m_size - 1 /\ m_front' = Slot(1)
           /\ m_array' = m_array /\ m_back' = m_back
           /\ \A k \in 0..m_size' : Slot(k)' = Slot(k + 1)
<1> USE DEF Q!BlockQueueAssumption
<1>1. /\ m_size \in 1..m_max_size /\ m_front \in -1..(m_max_size - 1)
      /\ m_max_size \in Nat \ {0}
  BY DEF QueueInv, Q!TypeOK, Q!Slots, TakeFindsItem, Q!PopTake
<1>2. /\ m_size' = m_size - 1 /\ m_front' = (m_front + 1) % m_max_size
      /\ m_array' = m_array /\ m_back' = m_back
  BY DEF Q!PopTake
<1>3. m_front' = Slot(1)
  <2>1. m_front \in Int /\ 0 <= m_front + 1 /\ m_front + 1 < 2 * m_max_size
    BY <1>1
  <2> QED
    BY <1>2, <2>1, Wrap DEF Slot
<1>4. Slot(1) \in 0..(m_max_size - 1)
  BY <1>1 DEF Slot
<1>5. \A k \in 0..m_size' : Slot(k)' = Slot(k + 1)
  BY <1>1, <1>2, <1>3 DEF Slot
<1> QED
  BY <1>1, <1>2, <1>3, <1>4, <1>5 DEF Q!Slots

\* The label of each thread after a broadcast.
LEMMA BroadcastLabels ==
    ASSUME Q!TypeOK, NEW p \in Producers, Q!broadcast(p)
    PROVE  /\ qpc' \in [Producers \cup Consumers ->
                          {"idle", "push", "test", "waiting", "woken", "take"}]
           /\ qpc'[p] = "idle"
           /\ \A t \in Producers \cup Consumers :
                 qpc'[t] \in {"push", "test", "take"} => t # p /\ qpc'[t] = qpc[t]
BY DEF Q!TypeOK, Q!broadcast

\* Every step keeps the types and the mutex, and what push and pop rely on.
LEMMA QueueThreads ==
    ASSUME Q!BlockQueueAssumption,
           QueueInv, [Q!Next]_(Q!vars)
    PROVE  Q!TypeOK' /\ MutexHeld' /\ PushHasItem' /\ TakeFindsItem'
<1> USE DEF Q!BlockQueueAssumption, QueueInv
<1> DEFINE Goal == Q!TypeOK' /\ MutexHeld' /\ PushHasItem' /\ TakeFindsItem'
<1>1. ASSUME NEW p \in Producers, NEW x \in Items, Q!PushLock(p, x) PROVE Goal
  BY <1>1 DEF Q!PushLock, Q!goto, Q!arrayVars, Q!TypeOK, MutexHeld, PushHasItem,
              TakeFindsItem
<1>2. ASSUME NEW p \in Producers, Q!PushFull(p) PROVE Goal
  <2>1. Q!TypeOK'
    BY <1>2, BroadcastLabels DEF Q!PushFull, Q!arrayVars, Q!TypeOK
  <2>2. MutexHeld' /\ PushHasItem' /\ TakeFindsItem'
    BY <1>2, BroadcastLabels
       DEF Q!PushFull, Q!arrayVars, MutexHeld, PushHasItem, TakeFindsItem
  <2> QED
    BY <2>1, <2>2
<1>3. ASSUME NEW p \in Producers, Q!PushStores(p) PROVE Goal
  <2>1. /\ m_size' \in 0..m_max_size /\ m_back' \in Q!Slots
        /\ m_array' \in [Q!Slots -> Items \cup {None}]
    <3>1. /\ m_size' = m_size + 1 /\ m_size < m_max_size /\ m_back' \in Q!Slots
          /\ m_array' = [m_array EXCEPT ![m_back'] = item[p]]
          /\ m_size \in 0..m_max_size /\ m_array \in [Q!Slots -> Items \cup {None}]
          /\ item[p] \in Items
      BY <1>3, StoreSlot DEF Q!TypeOK, PushHasItem, Q!PushStores
    <3> QED
      BY <3>1
  <2>2. Q!TypeOK'
    BY <1>3, <2>1, BroadcastLabels DEF Q!PushStores, Q!TypeOK
  <2>3. MutexHeld' /\ PushHasItem'
    BY <1>3, BroadcastLabels DEF Q!PushStores, MutexHeld, PushHasItem
  <2>4. TakeFindsItem'
    BY <1>3, BroadcastLabels DEF Q!PushStores, MutexHeld, TakeFindsItem
  <2> QED
    BY <2>2, <2>3, <2>4
<1>4. ASSUME NEW c \in Consumers, Q!PopLock(c) PROVE Goal
  BY <1>4 DEF Q!PopLock, Q!goto, Q!arrayVars, Q!TypeOK, MutexHeld, PushHasItem,
              TakeFindsItem
<1>5. ASSUME NEW c \in Consumers, Q!PopTest(c) PROVE Goal
  <2>1. Q!TypeOK' /\ PushHasItem'
    BY <1>5 DEF Q!PopTest, Q!goto, Q!arrayVars, Q!TypeOK, PushHasItem
  <2>2. MutexHeld'
    <3>1. \/ qpc' = [qpc EXCEPT ![c] = "waiting"] /\ m_mutex' = None
          \/ qpc' = [qpc EXCEPT ![c] = "take"] /\ m_mutex' = m_mutex
      BY <1>5 DEF Q!PopTest, Q!goto
    <3>2. qpc[c] = "test" /\ m_mutex = c
      BY <1>5 DEF Q!PopTest, MutexHeld
    <3>3. \A t \in (Producers \cup Consumers) \ {c} :
             qpc[t] \notin {"push", "test", "take"}
      BY <3>2 DEF MutexHeld
    <3>4. qpc \in [Producers \cup Consumers ->
                     {"idle", "push", "test", "waiting", "woken", "take"}]
      BY DEF Q!TypeOK
    <3> QED
      BY <3>1, <3>2, <3>3, <3>4 DEF MutexHeld
  <2>3. TakeFindsItem'
    BY <1>5 DEF Q!PopTest, Q!goto, Q!arrayVars, Q!TypeOK, TakeFindsItem
  <2> QED
    BY <2>1, <2>2, <2>3
<1>6. ASSUME NEW c \in Consumers, Q!PopTake(c) PROVE Goal
  <2>1. /\ m_front' \in Q!Slots /\ m_size' \in 0..m_max_size
        /\ m_array' = m_array /\ m_back' = m_back
        /\ m_array[m_front'] \in Items
    BY <1>6, TakeSlot DEF Q!TypeOK, SlotsFilled
  <2>2. popped' \in [Consumers -> Seq(Items)]
    BY <1>6, <2>1 DEF Q!PopTake, Q!TypeOK
  <2>3. Q!TypeOK'
    BY <1>6, <2>1, <2>2 DEF Q!PopTake, Q!goto, Q!TypeOK
  <2>4. MutexHeld' /\ PushHasItem' /\ TakeFindsItem'
    BY <1>6 DEF Q!PopTake, Q!goto, Q!TypeOK, MutexHeld, PushHasItem, TakeFindsItem
  <2> QED
    BY <2>3, <2>4
<1>7. ASSUME NEW c \in Consumers, Q!SpuriousWakeup(c) PROVE Goal
  BY <1>7 DEF Q!SpuriousWakeup, Q!goto, Q!arrayVars, Q!TypeOK, MutexHeld,
              PushHasItem, TakeFindsItem
<1>8. ASSUME Q!clear PROVE Goal
  BY <1>8 DEF Q!clear, Q!TypeOK, MutexHeld, PushHasItem, TakeFindsItem
<1>9. ASSUME UNCHANGED Q!vars PROVE Goal
  BY <1>9 DEF Q!vars, Q!arrayVars, Q!TypeOK, MutexHeld, PushHasItem, TakeFindsItem
<1> QED
  BY <1>1, <1>2, <1>3, <1>4, <1>5, <1>6, <1>7, <1>8, <1>9 DEF Q!Next, Q!push, Q!pop

\* Every step keeps the indexes and the slots between them.
LEMMA QueueSlots ==
    ASSUME Q!BlockQueueAssumption,
           QueueInv, [Q!Next]_(Q!vars) PROVE BackAgrees' /\ SlotsFilled'
<1> USE DEF Q!BlockQueueAssumption, QueueInv
<1>t. m_size \in 0..m_max_size /\ m_array \in [Q!Slots -> Items \cup {None}]
  BY DEF Q!TypeOK
<1>1. ASSUME NEW p \in Producers, Q!PushStores(p)
      PROVE  BackAgrees' /\ SlotsFilled'
  <2>1. /\ m_back' \in Q!Slots /\ m_size' = m_size + 1
        /\ m_back' = Slot(m_size + 1)
        /\ m_array' = [m_array EXCEPT ![m_back'] = item[p]]
        /\ \A k \in 1..m_size' : Slot(k)' = Slot(k)
        /\ item[p] \in Items
    BY <1>1, StoreSlot DEF PushHasItem, Q!PushStores
  <2>2. BackAgrees'
    BY <1>t, <2>1 DEF BackAgrees
  <2>3. \A k \in 1..m_size : Slot(k) \in Q!Slots
    BY ContentSlots DEF ContentInSlots
  <2>4. ASSUME NEW k \in 1..m_size' PROVE m_array'[Slot(k)'] \in Items
    <3>1. CASE k = m_size + 1
      BY <1>t, <2>1, <3>1
    <3>2. CASE k \in 1..m_size
      BY <1>t, <2>1, <2>3, <3>2 DEF SlotsFilled
    <3> QED
      BY <1>t, <2>1, <3>1, <3>2
  <2>5. SlotsFilled'
    BY <2>4 DEF SlotsFilled
  <2> QED
    BY <2>2, <2>5
<1>2. ASSUME NEW c \in Consumers, Q!PopTake(c)
      PROVE  BackAgrees' /\ SlotsFilled'
  <2>1. /\ m_size \in 1..m_max_size /\ m_size' = m_size - 1
        /\ m_array' = m_array /\ m_back' = m_back
        /\ \A k \in 0..m_size' : Slot(k)' = Slot(k + 1)
    BY <1>2, TakeSlot
  <2>2. BackAgrees'
    <3>1. m_size' \in 0..m_size' /\ m_size' + 1 = m_size
      BY <2>1
    <3> QED
      BY <2>1, <3>1 DEF BackAgrees
  <2>3. SlotsFilled'
    BY <2>1 DEF SlotsFilled
  <2> QED
    BY <2>2, <2>3
<1>3. ASSUME Q!clear PROVE BackAgrees' /\ SlotsFilled'
  BY <1>3 DEF Q!clear, BackAgrees, SlotsFilled, Slot
<1>4. ASSUME UNCHANGED Q!arrayVars PROVE BackAgrees' /\ SlotsFilled'
  BY <1>4 DEF Q!arrayVars, BackAgrees, SlotsFilled, Slot
<1> QED
  BY <1>1, <1>2, <1>3, <1>4
     DEF Q!Next, Q!push, Q!pop, Q!PushLock, Q!PushFull, Q!PopLock, Q!PopTest,
         Q!SpuriousWakeup, Q!vars

\* The invariant holds in every reachable state.
LEMMA QueueInvariant ==
    ASSUME Q!BlockQueueAssumption PROVE Q!Spec => []QueueInv
<1>1. Q!Init => QueueInv
  BY QueueInitially
<1>2. QueueInv /\ [Q!Next]_(Q!vars) => QueueInv'
  BY QueueThreads, QueueSlots DEF QueueInv
<1> QED
  BY <1>1, <1>2, PTL DEF Q!Spec

\* A push is Put: the content gets the item at its end.
LEMMA StoreIsPut ==
    ASSUME Q!BlockQueueAssumption,
           QueueInv, QueueInv', NEW p \in Producers, Q!PushStores(p)
    PROVE  \E x \in Items : Fifo!Put(x)
<1> USE DEF Q!BlockQueueAssumption
<1>1. /\ m_size < m_max_size /\ m_size' = m_size + 1 /\ m_back' \in Q!Slots
      /\ m_back' = Slot(m_size + 1)
      /\ m_array' = [m_array EXCEPT ![m_back'] = item[p]]
      /\ \A k \in 1..m_size : Slot(k) # m_back'
      /\ \A k \in 1..m_size' : Slot(k)' = Slot(k)
      /\ popped' = popped /\ item[p] \in Items
  BY StoreSlot DEF Q!PushStores, QueueInv, PushHasItem
<1>2. /\ Content \in Seq(Items \cup {None}) /\ Len(Content) = m_size
      /\ DOMAIN Content = 1..m_size
      /\ \A k \in 1..m_size : Slot(k) \in Q!Slots /\ Content[k] = m_array[Slot(k)]
      /\ m_size \in Nat /\ m_array \in [Q!Slots -> Items \cup {None}]
  BY ContentSlots DEF ContentInSlots, QueueInv, Q!TypeOK
<1>3. /\ Content' \in Seq(Items \cup {None}) /\ Len(Content') = m_size'
      /\ \A k \in 1..m_size' : Content'[k] = m_array'[Slot(k)']
  BY ContentSlotsAfter DEF QueueInv, ContentInSlots
<1>4. \A k \in 1..m_size : Content'[k] = Content[k]
  BY <1>1, <1>2, <1>3
<1>5. Content'[m_size + 1] = item[p]
  BY <1>1, <1>2, <1>3
<1>6. Content' = Append(Content, item[p])
  BY <1>1, <1>2, <1>3, <1>4, <1>5
<1> QED
  BY <1>1, <1>2, <1>6 DEF Fifo!Put

\* A pop is Get: the consumer gets the oldest item.
LEMMA TakeIsGet ==
    ASSUME Q!BlockQueueAssumption,
           QueueInv, QueueInv', NEW c \in Consumers, Q!PopTake(c)
    PROVE  Fifo!Get(c)
<1> USE DEF Q!BlockQueueAssumption
<1>1. /\ m_size \in 1..m_max_size /\ m_size' = m_size - 1
      /\ m_front' = Slot(1) /\ m_array' = m_array
      /\ \A k \in 0..m_size' : Slot(k)' = Slot(k + 1)
      /\ popped' = [popped EXCEPT ![c] = Append(@, m_array[m_front'])]
  BY TakeSlot DEF Q!PopTake
<1>2. /\ Content \in Seq(Items \cup {None}) /\ Len(Content) = m_size
      /\ \A k \in 1..m_size : Content[k] = m_array[Slot(k)]
  BY ContentSlots DEF ContentInSlots, QueueInv
<1>3. /\ Content' \in Seq(Items \cup {None}) /\ Len(Content') = m_size'
      /\ \A k \in 1..m_size' : Content'[k] = m_array'[Slot(k)']
  BY ContentSlotsAfter DEF QueueInv, ContentInSlots
<1>4. Content # <<>> /\ Head(Content) = m_array[m_front']
  <2>1. 1 \in 1..m_size
    BY <1>1
  <2>2. Content[1] = m_array[m_front']
    BY <1>1, <1>2, <2>1
  <2>3. Content # <<>> /\ Head(Content) = Content[1]
    BY <1>1, <1>2, EmptySeq
  <2> QED
    BY <2>2, <2>3
<1>5. \A k \in 1..m_size' : Content'[k] = Content[k + 1]
  <2> SUFFICES ASSUME NEW k \in 1..m_size'
               PROVE  Content'[k] = Content[k + 1]
    OBVIOUS
  <2>1. k \in 0..m_size' /\ k + 1 \in 1..m_size
    BY <1>1
  <2>2. Slot(k)' = Slot(k + 1) /\ Content'[k] = m_array'[Slot(k)']
    BY <1>1, <1>3, <2>1
  <2>3. Content[k + 1] = m_array[Slot(k + 1)]
    BY <1>2, <2>1
  <2> QED
    BY <1>1, <2>2, <2>3
<1>6. Content' = Tail(Content)
  BY <1>1, <1>2, <1>3, <1>5
<1> QED
  BY <1>1, <1>4, <1>6 DEF Fifo!Get

\* block_queue, with its circular array, its mutex and its condition variable,
\* is a first-in first-out queue of m_max_size items, whatever the threads do:
\* no item is lost, doubled, overtaken or popped from an empty queue.
THEOREM QueueImplementsFifo ==
    ASSUME Q!BlockQueueAssumption PROVE Q!Spec => ImplementsFifo
<1>1. Q!Init => Fifo!FifoInit
  <2> SUFFICES ASSUME Q!Init PROVE Fifo!FifoInit
    OBVIOUS
  <2>1. Content = <<>>
    BY DEF Q!Init, Content
  <2> QED
    BY <2>1 DEF Q!Init, Fifo!FifoInit
<1>2. QueueInv /\ QueueInv' /\ [Q!Next]_(Q!vars) =>
        [Fifo!FifoNext]_(Fifo!fifoVars)
  <2> SUFFICES ASSUME QueueInv, QueueInv', [Q!Next]_(Q!vars)
               PROVE  [Fifo!FifoNext]_(Fifo!fifoVars)
    OBVIOUS
  <2>1. ASSUME NEW p \in Producers, Q!PushStores(p)
        PROVE  Fifo!FifoNext
    BY <2>1, StoreIsPut DEF Fifo!FifoNext
  <2>2. ASSUME NEW c \in Consumers, Q!PopTake(c) PROVE Fifo!FifoNext
    BY <2>2, TakeIsGet DEF Fifo!FifoNext
  <2>3. ASSUME Q!clear PROVE Fifo!FifoNext
    <3>1. Content' = <<>> /\ popped' = popped
      BY <2>3 DEF Q!clear, Content
    <3> QED
      BY <3>1 DEF Fifo!FifoNext, Fifo!Drop
  <2>4. ASSUME UNCHANGED <<Q!arrayVars, popped>> PROVE UNCHANGED Fifo!fifoVars
    BY <2>4 DEF Q!arrayVars, Content, Fifo!fifoVars
  <2> QED
    BY <2>1, <2>2, <2>3, <2>4
       DEF Q!Next, Q!push, Q!pop, Q!PushLock, Q!PushFull, Q!PopLock, Q!PopTest,
           Q!SpuriousWakeup, Q!vars
<1> QED
  BY <1>1, <1>2, QueueInvariant, PTL DEF Q!Spec, ImplementsFifo, Fifo!FifoSpec
==============================================================================
