----------------------------- MODULE BlockQueue -----------------------------
(***************************************************************************)
(* inc/block_queue.h: a circular array with a mutex and a condition        *)
(* variable.  Producers push, consumers pop and wait while it is empty.    *)
(* pthread_cond_wait gives the mutex back, and returns after a broadcast   *)
(* or for no reason; called with the mutex held it does not fail.          *)
(***************************************************************************)
EXTENDS Integers, Sequences, FiniteSets, QueueArray

CONSTANTS Producers,
          None,        \* no owner of the mutex, an unused slot
          MaxPushes    \* bound: calls of push

ASSUME BlockQueueAssumption ==
    /\ None \notin Items \cup Producers \cup Consumers
    /\ Producers \cap Consumers = {}
    /\ m_max_size \in Nat \ {0} /\ MaxPushes \in Nat

VARIABLES m_mutex,   \* owner, or None
          pc,        \* pc[t]: where thread t is in push or pop
          item,      \* item[p]: the argument of push
          pushes     \* calls of push so far

arrayVars == <<m_array, m_size, m_front, m_back>>
vars == <<arrayVars, m_mutex, pc, item, pushes, popped>>

Slots == 0..(m_max_size - 1)

Init ==
    /\ m_array = [i \in Slots |-> None]
    /\ m_size = 0 /\ m_front = -1 /\ m_back = -1
    /\ m_mutex = None
    /\ pc = [t \in Producers \cup Consumers |-> "idle"]
    /\ item = [p \in Producers |-> None]
    /\ pushes = 0
    /\ popped = [c \in Consumers |-> <<>>]

goto(t, label) == pc' = [pc EXCEPT ![t] = label]
-----------------------------------------------------------------------------
PushLock(p, x) ==
    /\ pc[p] = "idle" /\ pushes < MaxPushes
    /\ m_mutex = None
    /\ m_mutex' = p
    /\ item' = [item EXCEPT ![p] = x]
    /\ pushes' = pushes + 1
    /\ goto(p, "push")
    /\ UNCHANGED <<arrayVars, popped>>

\* Mutant: nobody is woken.
broadcastLost(p) == goto(p, "idle")

\* m_cond.broadcast(): everybody who waits will compete for the mutex; p is
\* back from push.
broadcast(p) ==
    pc' = [t \in DOMAIN pc |-> IF t = p THEN "idle"
                               ELSE IF pc[t] = "waiting" THEN "woken"
                               ELSE pc[t]]

\* The queue is full: push returns false.
PushFull(p) ==
    /\ pc[p] = "push" /\ m_size >= m_max_size
    /\ broadcast(p)
    /\ m_mutex' = None
    /\ UNCHANGED <<arrayVars, item, pushes, popped>>

\* The item goes behind the last one.
PushStores(p) ==
    /\ pc[p] = "push" /\ m_size < m_max_size
    /\ m_back' = (m_back + 1) % m_max_size
    /\ m_array' = [m_array EXCEPT ![m_back'] = item[p]]
    /\ m_size' = m_size + 1
    /\ broadcast(p)
    /\ m_mutex' = None
    /\ UNCHANGED <<m_front, item, pushes, popped>>

\* pop takes the mutex, first or when pthread_cond_wait returns.
PopLock(c) ==
    /\ pc[c] \in {"idle", "woken"} /\ m_mutex = None
    /\ m_mutex' = c
    /\ goto(c, "test")
    /\ UNCHANGED <<arrayVars, item, pushes, popped>>

\* while (m_size <= 0): waiting releases the mutex.
PopTest(c) ==
    /\ pc[c] = "test"
    /\ IF m_size <= 0 THEN goto(c, "waiting") /\ m_mutex' = None
                      ELSE goto(c, "take") /\ UNCHANGED m_mutex
    /\ UNCHANGED <<arrayVars, item, pushes, popped>>

\* A wake-up without a broadcast.
SpuriousWakeup(c) ==
    /\ pc[c] = "waiting"
    /\ goto(c, "woken")
    /\ UNCHANGED <<arrayVars, m_mutex, item, pushes, popped>>

\* Mutant: the slot is read before m_front moves on.
PopTakeLate(c) ==
    /\ pc[c] = "take"
    /\ m_front' = (m_front + 1) % m_max_size
    /\ popped' = [popped EXCEPT ![c] =
                     Append(@, m_array[IF m_front < 0 THEN 0 ELSE m_front])]
    /\ m_size' = m_size - 1
    /\ m_mutex' = None
    /\ goto(c, "idle")
    /\ UNCHANGED <<m_array, m_back, item, pushes>>

PopTake(c) ==
    /\ pc[c] = "take"
    /\ m_front' = (m_front + 1) % m_max_size
    /\ popped' = [popped EXCEPT ![c] = Append(@, m_array[m_front'])]
    /\ m_size' = m_size - 1
    /\ m_mutex' = None
    /\ goto(c, "idle")
    /\ UNCHANGED <<m_array, m_back, item, pushes>>

\* clear(), from its lock to its unlock.
clear ==
    /\ m_mutex = None
    /\ m_size' = 0 /\ m_front' = -1 /\ m_back' = -1
    /\ UNCHANGED <<m_array, m_mutex, pc, item, pushes, popped>>
-----------------------------------------------------------------------------
push(p) == (\E x \in Items : PushLock(p, x)) \/ PushFull(p) \/ PushStores(p)
pop(c) == PopLock(c) \/ PopTest(c) \/ PopTake(c)

Next == \/ \E p \in Producers : push(p)
        \/ \E c \in Consumers : pop(c) \/ SpuriousWakeup(c)
        \/ clear

Spec == Init /\ [][Next]_vars

\* Threads inside push or pop are scheduled; no order among those that compete
\* for the mutex; nobody has to call push, and nothing is woken for no reason.
FairSpec ==
    /\ Spec
    /\ \A p \in Producers : WF_vars(PushFull(p) \/ PushStores(p))
    /\ \A c \in Consumers : WF_vars(PopTest(c) \/ PopTake(c))
    /\ WF_vars(\E c \in Consumers : pop(c))
-----------------------------------------------------------------------------
(* Properties, beside ImplementsFifo of QueueArray.                        *)

TypeOK ==
    /\ m_array \in [Slots -> Items \cup {None}]
    /\ m_size \in 0..m_max_size
    /\ m_front \in {-1} \cup Slots /\ m_back \in {-1} \cup Slots
    /\ m_mutex \in Producers \cup Consumers \cup {None}
    /\ pc \in [Producers \cup Consumers ->
                  {"idle", "push", "test", "waiting", "woken", "take"}]
    /\ item \in [Producers -> Items \cup {None}]
    /\ pushes \in 0..MaxPushes
    /\ popped \in [Consumers -> Seq(Items)]

\* A consumer does not sleep over items: as long as consumers keep calling
\* pop the queue is empty again and again.
Drained == m_size > 0 ~> m_size = 0
=============================================================================
