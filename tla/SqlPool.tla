------------------------------ MODULE SqlPool ------------------------------
(***************************************************************************)
(* connection_pool and connectionRAII of                                   *)
(* src/MysqlPool/sql_connection_pool.cpp: worker threads borrow a database *)
(* connection for the time of a request and give it back; DestroyPool runs *)
(* as a static destructor when main returns, while the detached workers    *)
(* may still be running.                                                   *)
(*                                                                         *)
(* A step ends where another thread can come in: at the unlocked test of   *)
(* connList.size(), at the semaphore, at the mutex and after an unlock.    *)
(***************************************************************************)
EXTENDS Integers, Sequences, FiniteSets

CONSTANTS Threads,     \* the threads that run requests
          Cons,        \* the database connections init creates
          None,        \* the NULL pointer; nobody
          Main,        \* the main thread, as an owner of the mutex
          UINT_MAX     \* the greatest unsigned int

ASSUME SqlPoolAssumption ==
    /\ None \notin Threads \cup Cons \cup {Main} /\ Main \notin Threads
    /\ IsFiniteSet(Threads) /\ IsFiniteSet(Cons)
    /\ UINT_MAX \in Nat /\ Cardinality(Cons) <= UINT_MAX

VARIABLES connList,   \* the free connections
          FreeConn,   \* the counter of free connections
          CurConn,    \* the counter of connections in use
          reserve,    \* value of the semaphore
          lock,       \* owner of the mutex, or None
          pc,         \* pc[t]: where thread t is
          con,        \* con[t]: the connection t holds, or None
          dpc,        \* where main is in DestroyPool
          closed      \* connections mysql_close was called for

poolVars == <<connList, FreeConn, CurConn, reserve, lock>>
vars == <<poolVars, pc, con, dpc, closed>>

\* Unsigned arithmetic wraps around.
Inc(n) == IF n = UINT_MAX THEN 0 ELSE n + 1
Dec(n) == IF n = 0 THEN UINT_MAX ELSE n - 1

\* After init: every connection is in the list, in some order.
Init ==
    /\ connList \in {s \in [1..Cardinality(Cons) -> Cons] :
                        \A i, j \in DOMAIN s : s[i] = s[j] => i = j}
    /\ FreeConn = Cardinality(Cons) /\ CurConn = 0
    /\ reserve = Cardinality(Cons)
    /\ lock = None
    /\ pc = [t \in Threads |-> "out"]
    /\ con = [t \in Threads |-> None]
    /\ dpc = "main" /\ closed = {}

goto(t, label) == pc' = [pc EXCEPT ![t] = label]
-----------------------------------------------------------------------------
(* GetConnection, called by the constructor of connectionRAII.             *)

\* The size is read without the lock; an empty list gives NULL.
TestSize(t) ==
    /\ pc[t] = "out"
    /\ goto(t, IF connList = <<>> THEN "null" ELSE "wait")
    /\ UNCHANGED <<poolVars, con, dpc, closed>>

\* reserve.wait()
Wait(t) ==
    /\ pc[t] = "wait" /\ reserve > 0
    /\ reserve' = reserve - 1
    /\ goto(t, "lock")
    /\ UNCHANGED <<connList, FreeConn, CurConn, lock, con, dpc, closed>>

\* lock.lock()
LockToGet(t) ==
    /\ pc[t] = "lock" /\ lock = None
    /\ lock' = t
    /\ goto(t, "pop")
    /\ UNCHANGED <<connList, FreeConn, CurConn, reserve, con, dpc, closed>>

\* Mutant: front without pop_front.
PopKeeps(t) ==
    /\ pc[t] = "pop" /\ connList # <<>>
    /\ con' = [con EXCEPT ![t] = Head(connList)]
    /\ FreeConn' = Dec(FreeConn) /\ CurConn' = Inc(CurConn)
    /\ lock' = None
    /\ goto(t, "using")
    /\ UNCHANGED <<connList, reserve, dpc, closed>>

\* Mutant: CurConn is not counted.
PopUncounted(t) ==
    /\ pc[t] = "pop" /\ connList # <<>>
    /\ con' = [con EXCEPT ![t] = Head(connList)]
    /\ connList' = Tail(connList)
    /\ FreeConn' = Dec(FreeConn)
    /\ lock' = None
    /\ goto(t, "using")
    /\ UNCHANGED <<CurConn, reserve, dpc, closed>>

\* front and pop_front, the counters, unlock (of a default mutex, whoever owns
\* it).
Pop(t) ==
    /\ pc[t] = "pop" /\ connList # <<>>
    /\ con' = [con EXCEPT ![t] = Head(connList)]
    /\ connList' = Tail(connList)
    /\ FreeConn' = Dec(FreeConn) /\ CurConn' = Inc(CurConn)
    /\ lock' = None
    /\ goto(t, "using")
    /\ UNCHANGED <<reserve, dpc, closed>>

\* front and pop_front of an empty list are undefined: pop_front frees the list's
\* own head.  The thread, with the mutex, goes no further.
PopEmpty(t) ==
    /\ pc[t] = "pop" /\ connList = <<>>
    /\ goto(t, "undefined")
    /\ UNCHANGED <<poolVars, con, dpc, closed>>
-----------------------------------------------------------------------------
(* ReleaseConnection, called by the destructor of connectionRAII.          *)

\* A NULL connection is not given back.
ReleaseNull(t) ==
    /\ pc[t] = "null"
    /\ goto(t, "out")
    /\ UNCHANGED <<poolVars, con, dpc, closed>>

\* lock.lock()
LockToRelease(t) ==
    /\ pc[t] = "using" /\ lock = None
    /\ lock' = t
    /\ goto(t, "push")
    /\ UNCHANGED <<connList, FreeConn, CurConn, reserve, con, dpc, closed>>

\* Mutant: the connection is counted but not put back.
PushForgets(t) ==
    /\ pc[t] = "push"
    /\ FreeConn' = Inc(FreeConn) /\ CurConn' = Dec(CurConn)
    /\ con' = [con EXCEPT ![t] = None]
    /\ lock' = None
    /\ goto(t, "post")
    /\ UNCHANGED <<connList, reserve, dpc, closed>>

\* push_back, the counters, unlock.
Push(t) ==
    /\ pc[t] = "push"
    /\ connList' = Append(connList, con[t])
    /\ FreeConn' = Inc(FreeConn) /\ CurConn' = Dec(CurConn)
    /\ con' = [con EXCEPT ![t] = None]
    /\ lock' = None
    /\ goto(t, "post")
    /\ UNCHANGED <<reserve, dpc, closed>>

\* Mutant: the semaphore is posted only while others have a connection.
PostSometimes(t) ==
    /\ pc[t] = "post"
    /\ reserve' = IF CurConn > 0 THEN reserve + 1 ELSE reserve
    /\ goto(t, "out")
    /\ UNCHANGED <<connList, FreeConn, CurConn, lock, con, dpc, closed>>

\* reserve.post()
Post(t) ==
    /\ pc[t] = "post"
    /\ reserve' = reserve + 1
    /\ goto(t, "out")
    /\ UNCHANGED <<connList, FreeConn, CurConn, lock, con, dpc, closed>>
-----------------------------------------------------------------------------
(* DestroyPool, called by ~connection_pool.                                *)

DestroyLock ==
    /\ dpc = "main" /\ lock = None
    /\ lock' = Main
    /\ dpc' = "close"
    /\ UNCHANGED <<connList, FreeConn, CurConn, reserve, pc, con, closed>>

\* Mutant: the list is not cleared.
DestroyKeepsList ==
    /\ dpc = "close"
    /\ closed' = closed \cup {connList[i] : i \in DOMAIN connList}
    /\ lock' = None
    /\ dpc' = "unlock"
    /\ UNCHANGED <<connList, FreeConn, CurConn, reserve, pc, con>>

\* The free connections are closed, the list cleared, and the lock released.
\* An empty list skips all that.
DestroyClose ==
    /\ dpc = "close"
    /\ IF connList # <<>>
       THEN /\ closed' = closed \cup {connList[i] : i \in DOMAIN connList}
            /\ connList' = <<>> /\ FreeConn' = 0 /\ CurConn' = 0
            /\ lock' = None
       ELSE UNCHANGED <<closed, connList, FreeConn, CurConn, lock>>
    /\ dpc' = "unlock"
    /\ UNCHANGED <<reserve, pc, con>>

\* The unlock after the if: main releases the lock, whoever owns it by now.
DestroyUnlock ==
    /\ dpc = "unlock"
    /\ lock' = None
    /\ dpc' = "destroyed"
    /\ UNCHANGED <<connList, FreeConn, CurConn, reserve, pc, con, closed>>
-----------------------------------------------------------------------------
Step(t) ==
    \/ TestSize(t) \/ Wait(t) \/ LockToGet(t) \/ Pop(t) \/ PopEmpty(t)
    \/ ReleaseNull(t) \/ LockToRelease(t) \/ Push(t) \/ Post(t)

DestroyPool == DestroyLock \/ DestroyClose \/ DestroyUnlock

Next == (\E t \in Threads : Step(t)) \/ DestroyPool

Spec == Init /\ [][Next]_vars

\* The threads are scheduled.  No order is assumed between threads that wait
\* for the semaphore, and a thread may be overtaken at the mutex for ever.
\* main, once in DestroyPool, goes on.
FairSpec ==
    /\ Spec
    /\ WF_vars(\E t \in Threads : Step(t))
    /\ \A t \in Threads : WF_vars(TestSize(t) \/ Pop(t) \/ LockToRelease(t)
                                  \/ Push(t) \/ Post(t))
    /\ WF_vars(DestroyClose \/ DestroyUnlock)
-----------------------------------------------------------------------------
(* Properties.                                                             *)

TypeOK ==
    /\ connList \in Seq(Cons)
    /\ FreeConn \in 0..UINT_MAX /\ CurConn \in 0..UINT_MAX
    /\ reserve \in Nat
    /\ lock \in Threads \cup {Main, None}
    /\ pc \in [Threads -> {"out", "null", "wait", "lock", "pop", "using",
                           "push", "post", "undefined"}]
    /\ con \in [Threads -> Cons \cup {None}]
    /\ dpc \in {"main", "close", "unlock", "destroyed"}
    /\ closed \subseteq Cons

InList(c) == \E i \in DOMAIN connList : connList[i] = c

\* The mutex excludes: DestroyPool has not released it twice.  Its second
\* unlock can let two threads into a critical section, and nothing is claimed
\* about the list from then on.
Excluding == dpc # "destroyed"

\* No connection is used by two threads, or is free and in use, or is in the
\* list twice, also while DestroyPool runs beside the threads.
NoSharing ==
    Excluding =>
    /\ \A t, u \in Threads : con[t] = con[u] /\ t # u => con[t] = None
    /\ \A t \in Threads : con[t] # None => ~InList(con[t])
    /\ \A i, j \in DOMAIN connList : connList[i] = connList[j] => i = j

\* DestroyPool has not touched the pool.
Alive == dpc \in {"main", "close"}

\* Until main returns, the three counts of free connections agree: the list,
\* FreeConn and the semaphore, up to the threads between a wait and its
\* pop_front, or between a push_back and its post; and front() is never called
\* on an empty list.  (DestroyPool clears the list and leaves the semaphore, so
\* later it may be.)
CountsAgree ==
    Alive =>
    /\ FreeConn = Len(connList)
    /\ CurConn = Cardinality({t \in Threads : con[t] # None})
    /\ Len(connList) = reserve
         + Cardinality({t \in Threads : pc[t] \in {"lock", "pop", "post"}})
    /\ \A t \in Threads : pc[t] # "undefined"

\* No thread works with a connection that DestroyPool has closed, although
\* DestroyPool does not wait for the threads.
UsesOpenConnection ==
    Excluding => \A t \in Threads : con[t] \notin closed

\* Until main returns, the unlocked test in GetConnection gives up only when
\* every connection is with some other thread, which uses it or is in
\* ReleaseConnection, on its way to push_back: none has got lost, however often
\* they were lent.  With as many connections as threads it never gives up.
NullOnlyWhenAllLent ==
    [][\A t \in Threads :
          Alive /\ pc[t] = "out" /\ pc'[t] = "null" =>
              \A c \in Cons : \E u \in Threads \ {t} : con[u] = c]_vars

\* "As a request comes, return a connection that is available", "wait if there is
\* none" (GetConnection): a thread does not go without one when another thread is
\* already giving one back.  The code does not keep this: the size is tested
\* before the wait, and without the lock.
ReturnedIsWaitedFor ==
    [][\A t, u \in Threads :
          Alive /\ pc[t] = "out" /\ pc'[t] = "null" => pc[u] # "push"]_vars

\* While a thread waits for a connection, some thread gets to use one again
\* and again, until main returns.
PoolServes ==
    (\E t \in Threads : pc[t] = "wait") ~>
        ((\E t \in Threads : pc[t] = "using") \/ ~Alive)
=============================================================================
