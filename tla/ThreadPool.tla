----------------------------- MODULE ThreadPool -----------------------------
(***************************************************************************)
(* inc/threadpool.h of SimpleWebServer: the request queue, the mutex that  *)
(* protects it and the semaphore that counts it.  The main thread appends; *)
(* the worker threads run.  The steps are the calls that other threads can *)
(* come between: lock, the body of a critical section with its unlock,     *)
(* post, wait.                                                             *)
(*                                                                         *)
(* A request is a member of Requests, appended at most once here.  main    *)
(* passes users + sockfd, so the NULL test of run never holds.             *)
(***************************************************************************)
EXTENDS Integers, Sequences, FiniteSets

CONSTANTS Requests,      \* the requests main appends
          Threads,       \* m_threads
          None,          \* no request, no owner
          Main,          \* the main thread, as an owner of the mutex
          MAX_REQUESTS   \* m_max_requests

ASSUME ThreadPoolAssumption ==
    /\ None \notin Requests \cup Threads \cup {Main}
    /\ Main \notin Threads /\ IsFiniteSet(Threads)
    /\ MAX_REQUESTS \in Nat \ {0}

VARIABLES m_workqueue,    \* sequence of requests
          m_queuelocker,  \* owner of the mutex, or None
          m_queuestat,    \* value of the semaphore
          m_stop,         \* set by the destructor
          mpc,            \* main: "free", "append", "post" or "gone"
          arg,            \* the request append was called with
          pc,             \* pc[t]: where run is
          request,        \* request[t]: the local variable of run
          offered,        \* requests append was called with
          refused,        \* those it returned false for
          done            \* requests process has returned from

mainVars == <<mpc, arg, offered, refused>>
vars == <<m_workqueue, m_queuelocker, m_queuestat, m_stop, mainVars, pc,
          request, done>>

Init ==
    /\ m_workqueue = <<>>
    /\ m_queuelocker = None
    /\ m_queuestat = 0
    /\ m_stop = FALSE
    /\ mpc = "free" /\ arg = None
    /\ pc = [t \in Threads |-> "loop"]
    /\ request = [t \in Threads |-> None]
    /\ offered = {} /\ refused = {} /\ done = {}
-----------------------------------------------------------------------------
(* append, called by main.                                                 *)

AppendLock(r) ==
    /\ mpc = "free" /\ r \notin offered
    /\ m_queuelocker = None
    /\ m_queuelocker' = Main
    /\ mpc' = "append" /\ arg' = r
    /\ offered' = offered \cup {r}
    /\ UNCHANGED <<m_workqueue, m_queuestat, m_stop, pc, request, refused,
                   done>>

\* The test append makes: one more than MAX_REQUESTS can wait.
Full == Len(m_workqueue) > MAX_REQUESTS

\* Too many requests: unlock and return false.
AppendRefuses ==
    /\ mpc = "append" /\ Full
    /\ refused' = refused \cup {arg}
    /\ m_queuelocker' = None
    /\ mpc' = "free" /\ arg' = None
    /\ UNCHANGED <<m_workqueue, m_queuestat, m_stop, offered, pc, request,
                   done>>

\* Mutant: the new request goes to the front.
AppendPushesFront ==
    /\ mpc = "append" /\ ~Full
    /\ m_workqueue' = <<arg>> \o m_workqueue
    /\ m_queuelocker' = None
    /\ mpc' = "post"
    /\ UNCHANGED <<m_queuestat, m_stop, arg, offered, refused, pc, request,
                   done>>

\* push_back and unlock.
AppendPushes ==
    /\ mpc = "append" /\ ~Full
    /\ m_workqueue' = Append(m_workqueue, arg)
    /\ m_queuelocker' = None
    /\ mpc' = "post"
    /\ UNCHANGED <<m_queuestat, m_stop, arg, offered, refused, pc, request,
                   done>>

\* Mutant: append forgets to post when requests were already waiting.
AppendPostsOnce ==
    /\ mpc = "post"
    /\ m_queuestat' = m_queuestat + (IF Len(m_workqueue) > 1 THEN 0 ELSE 1)
    /\ mpc' = "free" /\ arg' = None
    /\ UNCHANGED <<m_workqueue, m_queuelocker, m_stop, offered, refused, pc,
                   request, done>>

\* m_queuestat.post(); return true.
AppendPosts ==
    /\ mpc = "post"
    /\ m_queuestat' = m_queuestat + 1
    /\ mpc' = "free" /\ arg' = None
    /\ UNCHANGED <<m_workqueue, m_queuelocker, m_stop, offered, refused, pc,
                   request, done>>

\* ~threadpool.  It does not wait for the threads, which are detached.
Destroy ==
    /\ mpc = "free"
    /\ m_stop' = TRUE
    /\ mpc' = "gone"
    /\ UNCHANGED <<m_workqueue, m_queuelocker, m_queuestat, arg, offered,
                   refused, pc, request, done>>
-----------------------------------------------------------------------------
(* run, in thread t.                                                       *)

\* while (!m_stop)
TestStop(t) ==
    /\ pc[t] = "loop"
    /\ pc' = [pc EXCEPT ![t] = IF m_stop THEN "ended" ELSE "wait"]
    /\ UNCHANGED <<m_workqueue, m_queuelocker, m_queuestat, m_stop, mainVars,
                   request, done>>

\* m_queuestat.wait()
Wait(t) ==
    /\ pc[t] = "wait" /\ m_queuestat > 0
    /\ m_queuestat' = m_queuestat - 1
    /\ pc' = [pc EXCEPT ![t] = "lock"]
    /\ UNCHANGED <<m_workqueue, m_queuelocker, m_stop, mainVars, request, done>>

\* m_queuelocker.lock()
Lock(t) ==
    /\ pc[t] = "lock" /\ m_queuelocker = None
    /\ m_queuelocker' = t
    /\ pc' = [pc EXCEPT ![t] = "take"]
    /\ UNCHANGED <<m_workqueue, m_queuestat, m_stop, mainVars, request, done>>

\* An empty queue is only unlocked; otherwise its first request is taken.
Take(t) ==
    /\ pc[t] = "take"
    /\ IF m_workqueue = <<>>
       THEN /\ pc' = [pc EXCEPT ![t] = "loop"]
            /\ UNCHANGED <<m_workqueue, request>>
       ELSE /\ request' = [request EXCEPT ![t] = Head(m_workqueue)]
            /\ m_workqueue' = Tail(m_workqueue)
            /\ pc' = [pc EXCEPT ![t] = "process"]
    /\ m_queuelocker' = None
    /\ UNCHANGED <<m_queuestat, m_stop, mainVars, done>>

\* request->process(); SqlPool and Reactor have its details.
Process(t) ==
    /\ pc[t] = "process"
    /\ done' = done \cup {request[t]}
    /\ request' = [request EXCEPT ![t] = None]
    /\ pc' = [pc EXCEPT ![t] = "loop"]
    /\ UNCHANGED <<m_workqueue, m_queuelocker, m_queuestat, m_stop, mainVars>>
-----------------------------------------------------------------------------
Appending ==
    (\E r \in Requests : AppendLock(r)) \/ AppendRefuses \/ AppendPushes
    \/ AppendPosts
run(t) == TestStop(t) \/ Wait(t) \/ Lock(t) \/ Take(t) \/ Process(t)

Next == Appending \/ Destroy \/ \E t \in Threads : run(t)

Spec == Init /\ [][Next]_vars

\* The threads are scheduled.  Two threads that wait for one semaphore or one
\* mutex are not served in any order: fairness is for the pool as a whole, and
\* for each thread's own steps that need neither.
FairSpec ==
    /\ Spec
    /\ WF_vars(AppendRefuses \/ AppendPushes \/ AppendPosts)
    /\ WF_vars(\E t \in Threads : run(t))
    /\ \A t \in Threads : WF_vars(TestStop(t) \/ Take(t) \/ Process(t))
-----------------------------------------------------------------------------
(* Properties.                                                             *)

TypeOK ==
    /\ m_workqueue \in Seq(Requests)
    /\ m_queuelocker \in Threads \cup {Main, None}
    /\ m_queuestat \in Nat
    /\ m_stop \in BOOLEAN
    /\ mpc \in {"free", "append", "post", "gone"}
    /\ arg \in Requests \cup {None}
    /\ pc \in [Threads -> {"loop", "wait", "lock", "take", "process", "ended"}]
    /\ request \in [Threads -> Requests \cup {None}]
    /\ offered \subseteq Requests /\ refused \subseteq Requests
    /\ done \subseteq Requests

\* Threads that wait() has let through and that have taken nothing yet.
Woken == {t \in Threads : pc[t] \in {"lock", "take"}}

\* Between push_back and post the queue is one ahead of the semaphore.
Unposted == IF mpc = "post" THEN 1 ELSE 0

\* The semaphore counts the queue exactly: every waiting request has its post,
\* taken or not, and there is no post without one.  No wake-up is lost or wasted.
SemCountsQueue ==
    Len(m_workqueue) = m_queuestat + Cardinality(Woken) + Unposted

\* A thread that has been woken finds a request: the test of empty() in run
\* never succeeds.
WokenFindsRequest ==
    \A t \in Threads : pc[t] = "take" => m_workqueue # <<>>

\* The queue never holds more than MAX_REQUESTS + 1 requests: append's > lets
\* one more wait than the limit.
QueueBound == Len(m_workqueue) <= MAX_REQUESTS + 1

\* Every request append accepts is processed in the end, unless the pool is
\* destroyed first: the detached threads then leave it in the queue.
Processed ==
    \A r \in Requests : r \in offered ~> (r \in refused \cup done \/ m_stop)

\* The queue with its locks is the plain queue of WorkQueue.
Abstract == INSTANCE WorkQueue WITH waiting <- m_workqueue, serving <- request
ImplementsWorkQueue == Abstract!AbsSpec
=============================================================================
