----------------------------- MODULE WorkQueue -----------------------------
(***************************************************************************)
(* What inc/threadpool.h promises the main thread: a request that append   *)
(* accepts waits in a first-in first-out queue until exactly one thread    *)
(* takes it.  No locks, no semaphore.                                      *)
(***************************************************************************)
EXTENDS Naturals, Sequences

CONSTANTS Requests, Threads, None

VARIABLES waiting,    \* accepted requests, oldest first
          serving,    \* serving[t]: the request thread t processes, or None
          refused     \* requests append returned false for

absVars == <<waiting, serving, refused>>

AbsInit ==
    /\ waiting = <<>>
    /\ serving = [t \in Threads |-> None]
    /\ refused = {}

Accept(r) ==
    /\ waiting' = Append(waiting, r)
    /\ UNCHANGED <<serving, refused>>

Refuse(r) ==
    /\ refused' = refused \cup {r}
    /\ UNCHANGED <<waiting, serving>>

Start(t) ==
    /\ waiting # <<>> /\ serving[t] = None
    /\ serving' = [serving EXCEPT ![t] = Head(waiting)]
    /\ waiting' = Tail(waiting)
    /\ UNCHANGED refused

Finish(t) ==
    /\ serving[t] # None
    /\ serving' = [serving EXCEPT ![t] = None]
    /\ UNCHANGED <<waiting, refused>>

AbsNext ==
    \/ \E r \in Requests : Accept(r) \/ Refuse(r)
    \/ \E t \in Threads : Start(t) \/ Finish(t)

AbsSpec == AbsInit /\ [][AbsNext]_absVars
=============================================================================
