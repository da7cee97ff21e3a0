-------------------------- MODULE ThreadPoolProofs --------------------------
(***************************************************************************)
(* Proofs about ThreadPool, for any finite set of threads, any requests    *)
(* and any MAX_REQUESTS: the semaphore counts the queue, so a woken thread *)
(* finds a request and no wake-up is lost; the queue is bounded; and the   *)
(* queue with its locks implements the plain queue of WorkQueue.           *)
(***************************************************************************)
EXTENDS ThreadPool, FiniteSetTheorems, SequenceTheorems, TLAPS

\* append's argument is there while append runs, and a thread has a request
\* exactly while it processes it.
ArgGiven == mpc \in {"append", "post"} => arg # None
RequestHeld == \A t \in Threads : request[t] # None <=> pc[t] = "process"

\* The inductive invariant.  SemCountsQueue alone is not inductive: it says
\* nothing of the types, which Append and Tail need, and those of the requests
\* that move about need ArgGiven and RequestHeld.
PoolInv == TypeOK /\ ArgGiven /\ RequestHeld /\ SemCountsQueue /\ QueueBound

\* The invariant holds in the beginning.
LEMMA PoolInitially == ASSUME Init PROVE PoolInv
<1> USE ThreadPoolAssumption DEF Init
<1>1. TypeOK
  <2>1. m_workqueue \in Seq(Requests) /\ m_queuestat \in Nat
    OBVIOUS
  <2>2. m_stop \in BOOLEAN
    OBVIOUS
  <2>3. /\ pc \in [Threads -> {"loop", "wait", "lock", "take", "process",
                               "ended"}]
        /\ request \in [Threads -> Requests \cup {None}]
    OBVIOUS
  <2>4. /\ m_queuelocker \in Threads \cup {Main, None}
        /\ mpc \in {"free", "append", "post", "gone"}
        /\ arg \in Requests \cup {None}
        /\ offered \subseteq Requests /\ refused \subseteq Requests
        /\ done \subseteq Requests
    OBVIOUS
  <2> QED
    BY <2>1, <2>2, <2>3, <2>4 DEF TypeOK
<1>2. ArgGiven /\ RequestHeld
  BY DEF ArgGiven, RequestHeld
<1>3. Woken = {}
  BY DEF Woken
<1>4. Len(m_workqueue) = 0 /\ Unposted = 0
  BY DEF Unposted
<1>5. SemCountsQueue
  BY <1>3, <1>4, FS_EmptySet DEF SemCountsQueue
<1>6. QueueBound
  BY <1>4 DEF QueueBound
<1> QED
  BY <1>1, <1>2, <1>5, <1>6 DEF PoolInv

\* Every step preserves the types and the two facts they need.
LEMMA PoolTypes ==
    ASSUME PoolInv, [Next]_vars PROVE TypeOK' /\ ArgGiven' /\ RequestHeld'
<1> USE ThreadPoolAssumption DEF PoolInv, TypeOK, ArgGiven, RequestHeld,
        mainVars
<1>1. ASSUME NEW r \in Requests, AppendLock(r)
      PROVE  TypeOK' /\ ArgGiven' /\ RequestHeld'
  BY <1>1 DEF AppendLock
<1>2. CASE AppendRefuses
  BY <1>2 DEF AppendRefuses
<1>3. CASE AppendPushes
  BY <1>3 DEF AppendPushes
<1>4. CASE AppendPosts
  BY <1>4 DEF AppendPosts
<1>5. CASE Destroy
  BY <1>5 DEF Destroy
<1>6. ASSUME NEW t \in Threads, TestStop(t)
      PROVE  TypeOK' /\ ArgGiven' /\ RequestHeld'
  BY <1>6 DEF TestStop
<1>7. ASSUME NEW t \in Threads, Wait(t)
      PROVE  TypeOK' /\ ArgGiven' /\ RequestHeld'
  BY <1>7 DEF Wait
<1>8. ASSUME NEW t \in Threads, Lock(t)
      PROVE  TypeOK' /\ ArgGiven' /\ RequestHeld'
  BY <1>8 DEF Lock
<1>9. ASSUME NEW t \in Threads, Take(t)
      PROVE  TypeOK' /\ ArgGiven' /\ RequestHeld'
  <2>1. CASE m_workqueue = <<>>
    BY <1>9, <2>1 DEF Take
  <2>2. CASE m_workqueue # <<>>
    <3>1. Head(m_workqueue) \in Requests /\ Tail(m_workqueue) \in Seq(Requests)
      BY <2>2, HeadTailProperties
    <3>2. request' \in [Threads -> Requests \cup {None}]
      BY <1>9, <2>2, <3>1 DEF Take
    <3>3. /\ m_workqueue' \in Seq(Requests)
          /\ m_queuelocker' \in Threads \cup {Main, None}
          /\ pc' \in [Threads -> {"loop", "wait", "lock", "take", "process",
                                  "ended"}]
      BY <1>9, <2>2, <3>1 DEF Take
    <3>4. UNCHANGED <<m_queuestat, m_stop, mpc, arg, offered, refused, done>>
      BY <1>9 DEF Take
    <3>5. RequestHeld'
      BY <1>9, <2>2, <3>1 DEF Take
    <3> QED
      BY <3>2, <3>3, <3>4, <3>5
  <2> QED
    BY <2>1, <2>2
<1>10. ASSUME NEW t \in Threads, Process(t)
       PROVE  TypeOK' /\ ArgGiven' /\ RequestHeld'
  BY <1>10 DEF Process
<1>11. CASE UNCHANGED vars
  BY <1>11 DEF vars
<1> QED
  BY <1>1, <1>2, <1>3, <1>4, <1>5, <1>6, <1>7, <1>8, <1>9, <1>10, <1>11
     DEF Next, Appending, run

\* A thread that wait() lets through joins the woken ones; a thread that takes
\* a request leaves them.
LEMMA WokenCount ==
    ASSUME TypeOK
    PROVE  /\ IsFiniteSet(Woken) /\ Cardinality(Woken) \in Nat
           /\ Woken # {} => Cardinality(Woken) > 0
           /\ \A t \in Threads :
                 /\ t \notin Woken =>
                      Cardinality(Woken \cup {t}) = Cardinality(Woken) + 1
                 /\ t \in Woken =>
                      Cardinality(Woken \ {t}) = Cardinality(Woken) - 1
<1>1. IsFiniteSet(Woken)
  BY ThreadPoolAssumption, FS_Subset DEF Woken
<1>2. Cardinality(Woken) \in Nat
  BY <1>1, FS_CardinalityType
<1>3. Woken # {} => Cardinality(Woken) > 0
  BY <1>1, <1>2, FS_EmptySet
<1> QED
  BY <1>1, <1>2, <1>3, FS_AddElement, FS_RemoveElement

\* Every step keeps the semaphore and the queue together.
LEMMA SemStep == ASSUME PoolInv, [Next]_vars PROVE SemCountsQueue'
<1> USE ThreadPoolAssumption DEF PoolInv, mainVars
<1>w. /\ Cardinality(Woken) \in Nat
      /\ Woken # {} => Cardinality(Woken) > 0
  BY WokenCount
<1>t. /\ m_queuestat \in Nat /\ m_workqueue \in Seq(Requests)
      /\ Len(m_workqueue) \in Nat
      /\ Len(m_workqueue) = m_queuestat + Cardinality(Woken) + Unposted
  BY LenProperties DEF TypeOK, SemCountsQueue
<1> DEFINE Same == Woken' = Woken /\ m_queuestat' = m_queuestat
<1>1. ASSUME NEW r \in Requests, AppendLock(r) PROVE SemCountsQueue'
  <2>1. Same /\ Unposted' = Unposted /\ Len(m_workqueue') = Len(m_workqueue)
    BY <1>1 DEF AppendLock, Woken, Unposted
  <2> QED
    BY <1>t, <2>1 DEF SemCountsQueue
<1>2. CASE AppendRefuses
  <2>1. Same /\ Unposted' = Unposted /\ Len(m_workqueue') = Len(m_workqueue)
    BY <1>2 DEF AppendRefuses, Woken, Unposted
  <2> QED
    BY <1>t, <2>1 DEF SemCountsQueue
<1>3. CASE AppendPushes
  <2>1. Same /\ Unposted = 0 /\ Unposted' = 1
    BY <1>3 DEF AppendPushes, Woken, Unposted
  <2>2. Len(m_workqueue') = Len(m_workqueue) + 1
    BY <1>3, <1>t DEF AppendPushes, TypeOK, ArgGiven
  <2> QED
    BY <1>t, <1>w, <2>1, <2>2 DEF SemCountsQueue
<1>4. CASE AppendPosts
  <2>1. /\ Woken' = Woken /\ m_queuestat' = m_queuestat + 1
        /\ Unposted = 1 /\ Unposted' = 0
        /\ Len(m_workqueue') = Len(m_workqueue)
    BY <1>4 DEF AppendPosts, Woken, Unposted
  <2> QED
    BY <1>t, <1>w, <2>1 DEF SemCountsQueue
<1>5. CASE Destroy
  <2>1. Same /\ Unposted' = Unposted /\ Len(m_workqueue') = Len(m_workqueue)
    BY <1>5 DEF Destroy, Woken, Unposted
  <2> QED
    BY <1>t, <2>1 DEF SemCountsQueue
<1>6. ASSUME NEW t \in Threads, TestStop(t) PROVE SemCountsQueue'
  <2>1. Same /\ Unposted' = Unposted /\ Len(m_workqueue') = Len(m_workqueue)
    BY <1>6 DEF TestStop, Woken, Unposted, TypeOK
  <2> QED
    BY <1>t, <2>1 DEF SemCountsQueue
<1>7. ASSUME NEW t \in Threads, Wait(t) PROVE SemCountsQueue'
  <2>1. /\ t \notin Woken /\ Woken' = Woken \cup {t}
        /\ m_queuestat' = m_queuestat - 1 /\ Unposted' = Unposted
        /\ Len(m_workqueue') = Len(m_workqueue)
    BY <1>7 DEF Wait, Woken, Unposted, TypeOK
  <2>2. Cardinality(Woken') = Cardinality(Woken) + 1
    BY <2>1, WokenCount
  <2>3. Unposted \in Nat
    BY DEF Unposted
  <2> QED
    BY <1>t, <1>w, <2>1, <2>2, <2>3 DEF SemCountsQueue
<1>8. ASSUME NEW t \in Threads, Lock(t) PROVE SemCountsQueue'
  <2>1. Same /\ Unposted' = Unposted /\ Len(m_workqueue') = Len(m_workqueue)
    BY <1>8 DEF Lock, Woken, Unposted, TypeOK
  <2> QED
    BY <1>t, <2>1 DEF SemCountsQueue
<1>9. ASSUME NEW t \in Threads, Take(t) PROVE SemCountsQueue'
  <2>1. t \in Woken
    BY <1>9 DEF Take, Woken
  <2>2. Unposted \in Nat
    BY DEF Unposted
  <2>3. m_workqueue # <<>>
    BY <1>t, <1>w, <2>1, <2>2
  <2>4. Len(Tail(m_workqueue)) = Len(m_workqueue) - 1
    BY <1>t, <2>3, HeadTailProperties
  <2>5. /\ Woken' = Woken \ {t} /\ m_queuestat' = m_queuestat
        /\ m_workqueue' = Tail(m_workqueue) /\ Unposted' = Unposted
    BY <1>9, <2>3 DEF Take, Woken, Unposted, TypeOK
  <2>6. Cardinality(Woken') = Cardinality(Woken) - 1
    BY <2>1, <2>5, WokenCount
  <2> QED
    BY <1>t, <1>w, <2>2, <2>4, <2>5, <2>6 DEF SemCountsQueue
<1>10. ASSUME NEW t \in Threads, Process(t) PROVE SemCountsQueue'
  <2>1. Same /\ Unposted' = Unposted /\ Len(m_workqueue') = Len(m_workqueue)
    BY <1>10 DEF Process, Woken, Unposted, TypeOK
  <2> QED
    BY <1>t, <2>1 DEF SemCountsQueue
<1>11. CASE UNCHANGED vars
  <2>1. Same /\ Unposted' = Unposted /\ Len(m_workqueue') = Len(m_workqueue)
    BY <1>11 DEF vars, Woken, Unposted
  <2> QED
    BY <1>t, <2>1 DEF SemCountsQueue
<1> QED
  BY <1>1, <1>2, <1>3, <1>4, <1>5, <1>6, <1>7, <1>8, <1>9, <1>10, <1>11
     DEF Next, Appending, run

\* append tests the size under the lock: the queue never grows beyond one more
\* than MAX_REQUESTS.
LEMMA BoundStep == ASSUME PoolInv, [Next]_vars PROVE QueueBound'
<1> USE ThreadPoolAssumption DEF PoolInv, mainVars, QueueBound
<1>t. /\ m_workqueue \in Seq(Requests) /\ Len(m_workqueue) \in Nat
      /\ Len(m_workqueue) <= MAX_REQUESTS + 1 /\ MAX_REQUESTS \in Nat
  BY LenProperties DEF TypeOK
<1>1. CASE AppendPushes
  <2>1. Len(m_workqueue') = Len(m_workqueue) + 1
    BY <1>1, <1>t DEF AppendPushes, TypeOK, ArgGiven
  <2>2. Len(m_workqueue) <= MAX_REQUESTS
    BY <1>1, <1>t DEF AppendPushes, Full
  <2> QED
    BY <1>t, <2>1, <2>2
<1>2. ASSUME NEW t \in Threads, Take(t) PROVE QueueBound'
  <2>1. CASE m_workqueue = <<>>
    BY <1>2, <1>t, <2>1 DEF Take
  <2>2. CASE m_workqueue # <<>>
    <3>1. Len(m_workqueue') = Len(m_workqueue) - 1
      BY <1>2, <1>t, <2>2, HeadTailProperties DEF Take
    <3> QED
      BY <1>t, <3>1
  <2> QED
    BY <2>1, <2>2
<1>3. CASE m_workqueue' = m_workqueue
  BY <1>3, <1>t
<1>4. \/ AppendPushes
      \/ \E t \in Threads : Take(t)
      \/ m_workqueue' = m_workqueue
  BY DEF Next, Appending, run, vars, AppendLock, AppendRefuses, AppendPosts,
         Destroy, TestStop, Wait, Lock, Process
<1> QED
  BY <1>1, <1>2, <1>3, <1>4

\* The invariant is inductive and holds in every reachable state.
LEMMA PoolInductive == Spec => []PoolInv
<1>1. Init => PoolInv
  BY PoolInitially
<1>2. PoolInv /\ [Next]_vars => PoolInv'
  BY PoolTypes, SemStep, BoundStep DEF PoolInv
<1> QED
  BY <1>1, <1>2, PTL DEF Spec

\* Every variable of the pool has its type.
THEOREM ThreadPoolTypeOK == Spec => []TypeOK
<1>1. PoolInv => TypeOK
  BY DEF PoolInv
<1> QED
  BY <1>1, PoolInductive, PTL

\* The semaphore of threadpool.h counts the queue exactly, whatever the order
\* in which append and the threads take the lock: no post is lost or wasted.
THEOREM SemaphoreExact == Spec => []SemCountsQueue
<1>1. PoolInv => SemCountsQueue
  BY DEF PoolInv
<1> QED
  BY <1>1, PoolInductive, PTL

\* The empty() test of run never succeeds.
THEOREM NoEmptyWakeup == Spec => []WokenFindsRequest
<1>1. ASSUME PoolInv PROVE WokenFindsRequest
  <2> SUFFICES ASSUME NEW t \in Threads, pc[t] = "take"
               PROVE  m_workqueue # <<>>
    BY DEF WokenFindsRequest
  <2>1. t \in Woken
    BY DEF Woken
  <2>2. /\ Cardinality(Woken) \in Nat /\ Cardinality(Woken) > 0
    BY <1>1, <2>1, WokenCount DEF PoolInv
  <2>3. m_queuestat \in Nat /\ Unposted \in Nat
    BY <1>1 DEF PoolInv, TypeOK, Unposted
  <2>4. Len(m_workqueue) # 0
    BY <1>1, <2>2, <2>3 DEF PoolInv, SemCountsQueue
  <2> QED
    BY <2>4
<1> QED
  BY <1>1, PoolInductive, PTL

\* append lets at most MAX_REQUESTS + 1 requests wait.
THEOREM QueueBounded == Spec => []QueueBound
<1>1. PoolInv => QueueBound
  BY DEF PoolInv
<1> QED
  BY <1>1, PoolInductive, PTL

\* The pool's first state is the empty queue of WorkQueue.
LEMMA AbstractInit == ASSUME Init PROVE Abstract!AbsInit
BY DEF Init, Abstract!AbsInit

\* Every step of the pool is a step of WorkQueue, or leaves it alone.
LEMMA AbstractStep ==
    ASSUME PoolInv, [Next]_vars
    PROVE  [Abstract!AbsNext]_(Abstract!absVars)
<1> USE ThreadPoolAssumption DEF PoolInv, mainVars, Abstract!absVars
<1> DEFINE Stutter == UNCHANGED <<m_workqueue, request, refused>>
<1>1. CASE AppendRefuses
  <2>1. arg \in Requests
    BY <1>1 DEF AppendRefuses, TypeOK, ArgGiven
  <2>2. Abstract!Refuse(arg)
    BY <1>1 DEF AppendRefuses, Abstract!Refuse
  <2> QED
    BY <2>1, <2>2 DEF Abstract!AbsNext
<1>2. CASE AppendPushes
  <2>1. arg \in Requests
    BY <1>2 DEF AppendPushes, TypeOK, ArgGiven
  <2>2. Abstract!Accept(arg)
    BY <1>2 DEF AppendPushes, Abstract!Accept
  <2> QED
    BY <2>1, <2>2 DEF Abstract!AbsNext
<1>3. ASSUME NEW t \in Threads, Take(t)
      PROVE  Abstract!Start(t) \/ Stutter
  <2>1. request[t] = None
    BY <1>3 DEF Take, RequestHeld
  <2> QED
    BY <1>3, <2>1 DEF Take, Abstract!Start
<1>4. ASSUME NEW t \in Threads, Process(t) PROVE Abstract!Finish(t)
  <2>1. request[t] # None
    BY <1>4 DEF Process, RequestHeld
  <2> QED
    BY <1>4, <2>1 DEF Process, Abstract!Finish
<1>5. \/ AppendRefuses \/ AppendPushes
      \/ \E t \in Threads : Take(t) \/ Process(t)
      \/ Stutter
  BY DEF Next, Appending, run, vars, AppendLock, AppendPosts, Destroy,
         TestStop, Wait, Lock
<1> QED
  BY <1>1, <1>2, <1>3, <1>4, <1>5 DEF Abstract!AbsNext

\* The queue, its mutex and its semaphore implement WorkQueue: requests are
\* taken once each, in the order in which append accepted them.
THEOREM PoolRefinesQueue == Spec => ImplementsWorkQueue
<1>1. Init => Abstract!AbsInit
  BY AbstractInit
<1>2. PoolInv /\ [Next]_vars => [Abstract!AbsNext]_(Abstract!absVars)
  BY AbstractStep
<1> QED
  BY <1>1, <1>2, PoolInductive, PTL
     DEF Spec, ImplementsWorkQueue, Abstract!AbsSpec
=============================================================================
