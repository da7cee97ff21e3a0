------------------------------ MODULE AsyncLog ------------------------------
(***************************************************************************)
(* src/log/log.cpp and inc/log.h: threads call write_log; a flush thread   *)
(* moves the lines from the block_queue to the file.  Every piece of code  *)
(* between a lock and an unlock of m_mutex is one step.  The block_queue   *)
(* is the queue BoundedFifo describes, which BlockQueue implements: its    *)
(* calls are one step each.                                                *)
(*                                                                         *)
(* A line is a record of the thread that wrote it, its number and the day  *)
(* of its time stamp.  A file is named by its day and the number m_count / *)
(* m_split_lines of its suffix; fopen "a" never empties one.               *)
(***************************************************************************)
EXTENDS Integers, Sequences, FiniteSets

CONSTANTS Writers,        \* threads that log
          MaxLines,       \* bound: lines each of them writes
          MaxDay,         \* bound: last day
          m_split_lines,  \* lines of a file
          max_queue_size  \* slots of the queue

ASSUME AsyncLogAssumption ==
    /\ IsFiniteSet(Writers)
    /\ MaxLines \in Nat /\ MaxDay \in Nat
    /\ m_split_lines \in Nat \ {0} /\ max_queue_size \in Nat \ {0}

VARIABLES m_is_async,\* Log::init was given a queue
          loggers,   \* the writers that do log
          now,       \* today, by the clock
          m_today, m_count,
          m_fp,      \* the open file, as <<day, suffix>>
          files,     \* what was written to each file, flushed or not
          m_log_queue,
          pc, line,  \* where each writer is, and its line
          single_log,\* the line the flush thread has popped, as a sequence
          lost       \* lines whose push returned false

settings == <<m_is_async, loggers>>
logVars == <<settings, m_today, m_count, m_fp>>
vars == <<now, logVars, files, m_log_queue, pc, line, single_log, lost>>

Init ==
    /\ m_is_async \in BOOLEAN /\ loggers \in SUBSET Writers \ {{}}
    /\ now = 0
    /\ m_today = 0 /\ m_count = 0
    /\ m_fp = <<0, 0>>
    /\ files = <<>>
    /\ m_log_queue = <<>>
    /\ pc = [w \in Writers |-> "out"]
    /\ line = [w \in Writers |-> [by |-> w, no |-> 0, day |-> 0]]
    /\ single_log = <<>>
    /\ lost = {}

\* Midnight.
NextDay ==
    /\ now < MaxDay
    /\ now' = now + 1
    /\ UNCHANGED <<logVars, files, m_log_queue, pc, line, single_log, lost>>
-----------------------------------------------------------------------------
(* write_log.                                                              *)

\* gettimeofday and localtime, before any lock.
Stamp(w) ==
    /\ w \in loggers /\ pc[w] = "out" /\ line[w].no < MaxLines
    /\ line' = [line EXCEPT ![w].no = @ + 1, ![w].day = now]
    /\ pc' = [pc EXCEPT ![w] = "count"]
    /\ UNCHANGED <<now, logVars, files, m_log_queue, single_log, lost>>

\* Mutant: one line too many before the file is changed.
FileFullLate(n) == n % (m_split_lines + 1) = 0

\* m_count % m_split_lines == 0
FileFull(n) == n % m_split_lines = 0

\* m_count++, and a new file on a new day or after m_split_lines lines.
Count(w) ==
    /\ pc[w] = "count"
    /\ IF m_today # line[w].day
       THEN /\ m_today' = line[w].day
            /\ m_count' = 0
            /\ m_fp' = <<line[w].day, 0>>
       ELSE /\ m_count' = m_count + 1
            /\ m_fp' = IF FileFull(m_count')
                       THEN <<line[w].day, m_count' \div m_split_lines>>
                       ELSE m_fp
            /\ UNCHANGED m_today
    /\ pc' = [pc EXCEPT ![w] = IF m_is_async THEN "full" ELSE "put"]
    /\ UNCHANGED <<settings, now, files, m_log_queue, line, single_log, lost>>

\* The test of full(), and of push.
Room == Len(m_log_queue) < max_queue_size

\* Mutant: write_log does not wait for room.
NotFullAtOnce(w) ==
    /\ pc[w] = "full"
    /\ pc' = [pc EXCEPT ![w] = "push"]
    /\ UNCHANGED <<now, logVars, files, m_log_queue, line, single_log, lost>>

\* while (m_log_queue->full()) continue;
NotFull(w) ==
    /\ pc[w] = "full" /\ Room
    /\ pc' = [pc EXCEPT ![w] = "push"]
    /\ UNCHANGED <<now, logVars, files, m_log_queue, line, single_log, lost>>

\* Mutant: the newest line overtakes the ones in the queue.
enqueueFront(l) == <<l>> \o m_log_queue

enqueue(l) == Append(m_log_queue, l)

\* push, whose result is ignored: by now the queue may be full again.
Push(w) ==
    /\ pc[w] = "push"
    /\ IF Room
       THEN m_log_queue' = enqueue(line[w]) /\ UNCHANGED lost
       ELSE lost' = lost \cup {line[w]} /\ UNCHANGED m_log_queue
    /\ pc' = [pc EXCEPT ![w] = "out"]
    /\ UNCHANGED <<now, logVars, files, line, single_log>>

\* The lines fputs has written, with the file each went to, in order.
fputs(l) == files' = Append(files, [file |-> m_fp, line |-> l])

\* Without a queue the line is written at once.
PutSync(w) ==
    /\ pc[w] = "put"
    /\ fputs(line[w])
    /\ pc' = [pc EXCEPT ![w] = "out"]
    /\ UNCHANGED <<now, logVars, m_log_queue, line, single_log, lost>>
-----------------------------------------------------------------------------
(* async_write_log.  It never ends: pop returns true for an empty string   *)
(* too.                                                                    *)

Pop ==
    /\ single_log = <<>> /\ m_log_queue # <<>>
    /\ single_log' = <<Head(m_log_queue)>>
    /\ m_log_queue' = Tail(m_log_queue)
    /\ UNCHANGED <<now, logVars, files, pc, line, lost>>

\* Mutant: a line popped on the eve of a new file is dropped.
PutAsyncDrops ==
    /\ single_log # <<>>
    /\ IF m_fp[1] = Head(single_log).day THEN fputs(Head(single_log))
                                         ELSE UNCHANGED files
    /\ single_log' = <<>>
    /\ UNCHANGED <<now, logVars, m_log_queue, pc, line, lost>>

PutAsync ==
    /\ single_log # <<>>
    /\ fputs(Head(single_log))
    /\ single_log' = <<>>
    /\ UNCHANGED <<now, logVars, m_log_queue, pc, line, lost>>
-----------------------------------------------------------------------------
write_log(w) == Stamp(w) \/ Count(w) \/ NotFull(w) \/ Push(w) \/ PutSync(w)
async_write_log == Pop \/ PutAsync

Next == NextDay \/ async_write_log \/ \E w \in Writers : write_log(w)

Spec == Init /\ [][Next]_vars

\* The threads are scheduled, also the one that spins on full().
FairSpec ==
    /\ Spec
    /\ WF_vars(async_write_log)
    /\ \A w \in Writers : WF_vars(Count(w) \/ NotFull(w) \/ Push(w) \/ PutSync(w))
-----------------------------------------------------------------------------
(* Properties.                                                             *)

Lines == [by : Writers, no : 0..MaxLines, day : 0..MaxDay]

TypeOK ==
    /\ m_is_async \in BOOLEAN /\ loggers \subseteq Writers
    /\ now \in 0..MaxDay /\ m_today \in 0..MaxDay
    /\ m_count \in Nat
    /\ m_fp \in (0..MaxDay) \X Nat
    /\ files \in Seq([file : (0..MaxDay) \X Nat, line : Lines])
    /\ m_log_queue \in Seq(Lines) /\ Len(m_log_queue) <= max_queue_size
    /\ single_log \in Seq(Lines) /\ Len(single_log) <= 1
    /\ pc \in [Writers -> {"out", "count", "full", "push", "put"}]
    /\ line \in [Writers -> Lines]
    /\ lost \subseteq Lines

\* The lines that were written, to whatever file.
Written == {files[i].line : i \in DOMAIN files}

\* A thread's lines are written in the order in which it logged them, and none
\* of them twice.
WriterOrder ==
    \A i, j \in DOMAIN files :
        i < j /\ files[i].line.by = files[j].line.by =>
            files[i].line.no < files[j].line.no

OneLogger == Cardinality(loggers) = 1

\* With one logging thread the wait for room suffices: no push fails.  (With
\* two, both can pass the test of full() for the last slot.)
NoneLost == OneLogger => lost = {}

\* The lines that w has begun to log, and that are neither written nor lost.
Due(w) == {n \in 1..line[w].no :
              \A l \in Written \cup lost : l.by = w => l.no # n}

\* Every line whose write_log has begun is in a file in the end, or its push
\* failed: a thread that stops logging, as each does after MaxLines lines, has
\* no line due.
Logged == \A w \in Writers : Due(w) # {} ~> Due(w) = {}

LinesIn(f) == Cardinality({i \in DOMAIN files : files[i].file = f})

\* One thread that logs without a queue gets what Log promises of its files:
\* at most m_split_lines lines in each, and every line in a file of the day of
\* its time stamp.  (With the queue, or a second thread, the file can change
\* between the counting of a line and its fputs.)
FilesKept ==
    OneLogger /\ ~m_is_async =>
        \A i \in DOMAIN files : /\ LinesIn(files[i].file) <= m_split_lines
                                /\ files[i].file[1] = files[i].line.day
=============================================================================
