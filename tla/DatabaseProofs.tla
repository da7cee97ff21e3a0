--------------------------- MODULE DatabaseProofs ---------------------------
(***************************************************************************)
(* Proofs about the two components in front of MySQL, for any threads.     *)
(* SqlPool, for any finite set of connections: no connection is shared,    *)
(* the counters agree without wrapping around, no thread uses a closed     *)
(* connection, and GetConnection returns NULL only when every connection   *)
(* is lent.  Accounts, for any names and passwords: between two starts of  *)
(* the server a name has one password, and a confirmed registration        *)
(* counts, but for what the unlocked find and operator[] can do to both.   *)
(***************************************************************************)
EXTENDS SqlPool, AccountRecords, FiniteSetTheorems, SequenceTheorems, TLAPS

\* A thread has a connection exactly between its pop_front and its push_back.
ConHeld == \A t \in Threads : con[t] # None <=> pc[t] \in {"using", "push"}

\* Whoever is in a critical section owns the mutex, until DestroyPool has
\* released it twice.
OwnsLock ==
    Excluding => /\ \A t \in Threads : pc[t] \in {"pop", "push"} => lock = t
                 /\ dpc = "close" => lock = Main

\* Until main returns, a connection is in the list or with a thread, and the
\* counters add up to the number of connections, so that neither wraps around.
NoneMissing ==
    Alive => /\ \A c \in Cons : InList(c) \/ \E t \in Threads : con[t] = c
             /\ FreeConn + CurConn = Cardinality(Cons)

\* No connection in the list is closed.
ListOpen == Excluding => \A i \in DOMAIN connList : connList[i] \notin closed

\* The inductive invariant.
SqlInv ==
    /\ TypeOK /\ ConHeld /\ OwnsLock /\ NoSharing /\ NoneMissing
    /\ CountsAgree /\ ListOpen /\ UsesOpenConnection

\* The threads that have a connection, and the ones the semaphore has let
\* through and that have not popped, or have pushed and not posted.
Lent == {t \in Threads : con[t] # None}
Between == {t \in Threads : pc[t] \in {"lock", "pop", "post"}}

\* The size of a set of threads, with one more or one less member.
LEMMA SubsetCount ==
    ASSUME NEW S \in SUBSET Threads
    PROVE  /\ Cardinality(S) \in Nat
           /\ S # {} => Cardinality(S) > 0
           /\ \A t \in Threads :
                 /\ t \notin S => Cardinality(S \cup {t}) = Cardinality(S) + 1
                 /\ t \in S => Cardinality(S \ {t}) = Cardinality(S) - 1
<1>1. IsFiniteSet(S)
  BY SqlPoolAssumption, FS_Subset
<1>2. Cardinality(S) \in Nat
  BY <1>1, FS_CardinalityType
<1>3. S # {} => Cardinality(S) > 0
  BY <1>1, <1>2, FS_EmptySet
<1> QED
  BY <1>1, <1>2, <1>3, FS_AddElement, FS_RemoveElement

\* The list init makes: every connection once.
LEMMA FirstList ==
    ASSUME Init
    PROVE  /\ connList \in Seq(Cons) /\ Len(connList) = Cardinality(Cons)
           /\ \A c \in Cons : InList(c)
<1>1. /\ Cardinality(Cons) \in Nat
      /\ connList \in [1..Cardinality(Cons) -> Cons]
      /\ \A i, j \in 1..Cardinality(Cons) : connList[i] = connList[j] => i = j
  BY SqlPoolAssumption, FS_CardinalityType DEF Init
<1>2. connList \in Seq(Cons) /\ Len(connList) = Cardinality(Cons)
  BY <1>1
<1>3. connList \in Injection(1..Cardinality(Cons), Cons)
  BY <1>1 DEF Injection, IsInjective
<1>4. Cardinality(1..Cardinality(Cons)) = Cardinality(Cons)
  BY <1>1, FS_Interval
<1>5. connList \in Surjection(1..Cardinality(Cons), Cons)
  BY <1>3, <1>4, SqlPoolAssumption, FS_Injection
<1>6. \A c \in Cons : \E i \in 1..Cardinality(Cons) : connList[i] = c
  BY <1>5 DEF Surjection
<1> QED
  BY <1>1, <1>2, <1>6 DEF InList

\* The invariant holds in the beginning.
LEMMA SqlInitially == ASSUME Init PROVE SqlInv
<1> USE SqlPoolAssumption DEF Init
<1>n. Cardinality(Cons) \in Nat
  BY FS_CardinalityType
<1>l. /\ connList \in Seq(Cons) /\ Len(connList) = Cardinality(Cons)
      /\ \A c \in Cons : InList(c)
  BY FirstList
<1>1. TypeOK
  BY <1>n, <1>l DEF TypeOK
<1>2. ConHeld /\ OwnsLock /\ ListOpen /\ UsesOpenConnection
  BY DEF ConHeld, OwnsLock, ListOpen, UsesOpenConnection
<1>3. NoSharing
  BY DEF NoSharing
<1>4. NoneMissing
  BY <1>n, <1>l DEF NoneMissing
<1>5. Lent = {} /\ Between = {}
  BY DEF Lent, Between
<1>6. Cardinality(Lent) = 0 /\ Cardinality(Between) = 0
  BY <1>5, FS_EmptySet
<1>7. CountsAgree
  BY <1>n, <1>l, <1>6 DEF CountsAgree, Lent, Between
<1> QED
  BY <1>1, <1>2, <1>3, <1>4, <1>7 DEF SqlInv

\* What pop_front does to a list without repetitions.
LEMMA PopList ==
    ASSUME TypeOK, connList # <<>>
    PROVE  /\ Head(connList) \in Cons /\ Tail(connList) \in Seq(Cons)
           /\ Head(connList) = connList[1] /\ 1 \in DOMAIN connList
           /\ Len(connList) \in Nat \ {0}
           /\ Len(Tail(connList)) = Len(connList) - 1
           /\ DOMAIN connList = 1..Len(connList)
           /\ DOMAIN Tail(connList) = 1..(Len(connList) - 1)
           /\ \A i \in 1..(Len(connList) - 1) :
                 Tail(connList)[i] = connList[i + 1]
<1>1. connList \in Seq(Cons)
  BY DEF TypeOK
<1>2. /\ Head(connList) \in Cons /\ Tail(connList) \in Seq(Cons)
      /\ Len(Tail(connList)) = Len(connList) - 1
      /\ \A i \in 1..Len(Tail(connList)) : Tail(connList)[i] = connList[i + 1]
  BY <1>1, HeadTailProperties
<1>3. Len(connList) \in Nat \ {0} /\ DOMAIN connList = 1..Len(connList)
  BY <1>1, EmptySeq, LenProperties
<1>4. DOMAIN Tail(connList) = 1..(Len(connList) - 1)
  BY <1>2, LenProperties
<1>5. Head(connList) = connList[1]
  BY <1>1
<1> QED
  BY <1>2, <1>3, <1>4, <1>5

\* What push_back does to a list.
LEMMA PushList ==
    ASSUME TypeOK, NEW c \in Cons
    PROVE  /\ Append(connList, c) \in Seq(Cons)
           /\ Len(connList) \in Nat
           /\ Len(Append(connList, c)) = Len(connList) + 1
           /\ DOMAIN connList = 1..Len(connList)
           /\ DOMAIN Append(connList, c) = 1..(Len(connList) + 1)
           /\ \A i \in 1..Len(connList) : Append(connList, c)[i] = connList[i]
           /\ Append(connList, c)[Len(connList) + 1] = c
<1>1. connList \in Seq(Cons)
  BY DEF TypeOK
<1> QED
  BY <1>1, AppendProperties, LenProperties

\* Every step preserves the types, who has a connection and who the mutex.
LEMMA SqlTypes ==
    ASSUME SqlInv, [Next]_vars PROVE TypeOK' /\ ConHeld' /\ OwnsLock'
<1> USE SqlPoolAssumption DEF SqlInv, TypeOK, ConHeld, OwnsLock, Excluding,
        poolVars, goto
<1> DEFINE Goal == TypeOK' /\ ConHeld' /\ OwnsLock'
<1>1. ASSUME NEW t \in Threads, TestSize(t) PROVE Goal
  BY <1>1 DEF TestSize
<1>2. ASSUME NEW t \in Threads, Wait(t) PROVE Goal
  BY <1>2 DEF Wait
<1>3. ASSUME NEW t \in Threads, LockToGet(t) PROVE Goal
  BY <1>3 DEF LockToGet
<1>4. ASSUME NEW t \in Threads, Pop(t) PROVE Goal
  <2>1. /\ Head(connList) \in Cons /\ Tail(connList) \in Seq(Cons)
        /\ Dec(FreeConn) \in 0..UINT_MAX /\ Inc(CurConn) \in 0..UINT_MAX
    BY <1>4, PopList DEF Pop, Dec, Inc
  <2>2. TypeOK'
    BY <1>4, <2>1 DEF Pop
  <2>3. ConHeld'
    BY <1>4, <2>1 DEF Pop
  <2>4. OwnsLock'
    BY <1>4 DEF Pop
  <2> QED
    BY <2>2, <2>3, <2>4
<1>5. ASSUME NEW t \in Threads, ReleaseNull(t) PROVE Goal
  BY <1>5 DEF ReleaseNull
<1>6. ASSUME NEW t \in Threads, LockToRelease(t) PROVE Goal
  BY <1>6 DEF LockToRelease
<1>7. ASSUME NEW t \in Threads, Push(t) PROVE Goal
  <2>1. con[t] \in Cons
    BY <1>7 DEF Push
  <2>2. /\ Append(connList, con[t]) \in Seq(Cons)
        /\ Inc(FreeConn) \in 0..UINT_MAX /\ Dec(CurConn) \in 0..UINT_MAX
    BY <2>1, PushList DEF Dec, Inc
  <2>3. TypeOK'
    BY <1>7, <2>2 DEF Push
  <2>4. ConHeld'
    BY <1>7 DEF Push
  <2>5. OwnsLock'
    BY <1>7 DEF Push
  <2> QED
    BY <2>3, <2>4, <2>5
<1>8. ASSUME NEW t \in Threads, Post(t) PROVE Goal
  BY <1>8 DEF Post
<1>9. CASE DestroyLock
  BY <1>9 DEF DestroyLock
<1>10. CASE DestroyClose
  <2>1. \A i \in DOMAIN connList : connList[i] \in Cons
    BY LenProperties
  <2>2. {connList[i] : i \in DOMAIN connList} \subseteq Cons
    BY <2>1
  <2>3. CASE connList # <<>>
    BY <1>10, <2>2, <2>3 DEF DestroyClose
  <2>4. CASE connList = <<>>
    BY <1>10, <2>4 DEF DestroyClose
  <2> QED
    BY <2>3, <2>4
<1>11. CASE DestroyUnlock
  BY <1>11 DEF DestroyUnlock
<1>12. CASE UNCHANGED vars
  BY <1>12 DEF vars
<1>13. ASSUME NEW t \in Threads, PopEmpty(t) PROVE Goal
  BY <1>13 DEF PopEmpty
<1> QED
  BY <1>1, <1>2, <1>3, <1>4, <1>5, <1>6, <1>7, <1>8, <1>9, <1>10, <1>11, <1>12, <1>13
     DEF Next, Step, DestroyPool

\* Every step keeps the connections apart: in the list once, or with one
\* thread.
LEMMA SharingStep == ASSUME SqlInv, [Next]_vars PROVE NoSharing'
<1> SUFFICES ASSUME Excluding' PROVE NoSharing'
  BY DEF NoSharing
<1>e. Excluding
  BY DEF Excluding, Next, Step, DestroyPool, vars, poolVars, goto, TestSize,
         Wait, LockToGet, Pop, PopEmpty, ReleaseNull, LockToRelease, Push, Post,
         DestroyLock, DestroyClose, DestroyUnlock
<1>i. /\ \A t, u \in Threads : con[t] = con[u] /\ t # u => con[t] = None
      /\ \A t \in Threads, i \in DOMAIN connList :
            con[t] # None => con[t] # connList[i]
      /\ \A i, j \in DOMAIN connList : connList[i] = connList[j] => i = j
  BY <1>e DEF SqlInv, NoSharing, InList
<1>t. TypeOK /\ con \in [Threads -> Cons \cup {None}] /\ None \notin Cons
  BY SqlPoolAssumption DEF SqlInv, TypeOK
<1>1. ASSUME NEW t \in Threads, Pop(t) PROVE NoSharing'
  <2>1. /\ con' = [con EXCEPT ![t] = connList[1]]
        /\ connList' = Tail(connList) /\ connList # <<>>
    BY <1>1, <1>t, PopList DEF Pop
  <2>2. /\ DOMAIN connList = 1..Len(connList) /\ Len(connList) \in Nat \ {0}
        /\ DOMAIN connList' = 1..(Len(connList) - 1)
        /\ \A i \in DOMAIN connList' :
              i + 1 \in DOMAIN connList /\ connList'[i] = connList[i + 1]
    BY <1>t, <2>1, PopList
  <2>3. \A u, v \in Threads : con'[u] = con'[v] /\ u # v => con'[u] = None
    BY <1>i, <1>t, <2>1, <2>2
  <2>4. \A u \in Threads, i \in DOMAIN connList' :
           con'[u] # None => con'[u] # connList'[i]
    BY <1>i, <1>t, <2>1, <2>2
  <2>5. \A i, j \in DOMAIN connList' : connList'[i] = connList'[j] => i = j
    BY <1>i, <2>2
  <2> QED
    BY <2>3, <2>4, <2>5 DEF NoSharing, InList
<1>2. ASSUME NEW t \in Threads, Push(t) PROVE NoSharing'
  <2>1. con[t] \in Cons
    BY <1>2, <1>t DEF SqlInv, ConHeld, Push
  <2>2. /\ con' = [con EXCEPT ![t] = None]
        /\ connList' = Append(connList, con[t])
    BY <1>2 DEF Push
  <2>3. /\ DOMAIN connList = 1..Len(connList) /\ Len(connList) \in Nat
        /\ DOMAIN connList' = 1..(Len(connList) + 1)
        /\ \A i \in DOMAIN connList : connList'[i] = connList[i]
        /\ connList'[Len(connList) + 1] = con[t]
    BY <1>t, <2>1, <2>2, PushList
  <2>4. \A u, v \in Threads : con'[u] = con'[v] /\ u # v => con'[u] = None
    BY <1>i, <1>t, <2>2
  <2>5. \A u \in Threads, i \in DOMAIN connList' :
           con'[u] # None => con'[u] # connList'[i]
    BY <1>i, <1>t, <2>2, <2>3
  <2>6. \A i, j \in DOMAIN connList' : connList'[i] = connList'[j] => i = j
    BY <1>i, <1>t, <2>1, <2>3
  <2> QED
    BY <2>4, <2>5, <2>6 DEF NoSharing, InList
<1>3. CASE DestroyClose /\ connList # <<>>
  <2>1. con' = con /\ connList' = <<>>
    BY <1>3 DEF DestroyClose
  <2> QED
    BY <1>i, <2>1 DEF NoSharing, InList
<1>4. CASE con' = con /\ connList' = connList
  BY <1>i, <1>4 DEF NoSharing, InList
<1>5. \/ \E t \in Threads : Pop(t) \/ Push(t)
      \/ DestroyClose /\ connList # <<>>
      \/ con' = con /\ connList' = connList
  BY DEF Next, Step, DestroyPool, vars, poolVars, goto, TestSize, Wait,
         LockToGet, PopEmpty, ReleaseNull, LockToRelease, Post, DestroyLock,
         DestroyClose, DestroyUnlock
<1> QED
  BY <1>1, <1>2, <1>3, <1>4, <1>5

\* No step closes a connection that a thread has, and no closed one comes back
\* to the list.
LEMMA OpenStep ==
    ASSUME SqlInv, [Next]_vars PROVE ListOpen' /\ UsesOpenConnection'
<1> SUFFICES ASSUME Excluding' PROVE ListOpen' /\ UsesOpenConnection'
  BY DEF ListOpen, UsesOpenConnection
<1>e. Excluding
  BY DEF Excluding, Next, Step, DestroyPool, vars, poolVars, goto, TestSize,
         Wait, LockToGet, Pop, PopEmpty, ReleaseNull, LockToRelease, Push, Post,
         DestroyLock, DestroyClose, DestroyUnlock
<1>i. /\ \A i \in DOMAIN connList : connList[i] \notin closed
      /\ \A t \in Threads : con[t] \notin closed
      /\ \A t \in Threads, i \in DOMAIN connList :
            con[t] # None => con[t] # connList[i]
  BY <1>e DEF SqlInv, NoSharing, InList, ListOpen, UsesOpenConnection
<1>t. /\ TypeOK /\ con \in [Threads -> Cons \cup {None}] /\ None \notin Cons
      /\ closed \subseteq Cons
  BY SqlPoolAssumption DEF SqlInv, TypeOK
<1>1. ASSUME NEW t \in Threads, Pop(t) PROVE ListOpen' /\ UsesOpenConnection'
  <2>1. /\ con' = [con EXCEPT ![t] = connList[1]] /\ 1 \in DOMAIN connList
        /\ connList' = Tail(connList) /\ closed' = closed
    BY <1>1, <1>t, PopList DEF Pop
  <2>2. \A i \in DOMAIN connList' :
           i + 1 \in DOMAIN connList /\ connList'[i] = connList[i + 1]
    BY <1>1, <1>t, <2>1, PopList DEF Pop
  <2> QED
    BY <1>i, <1>t, <2>1, <2>2 DEF ListOpen, UsesOpenConnection
<1>2. ASSUME NEW t \in Threads, Push(t) PROVE ListOpen' /\ UsesOpenConnection'
  <2>1. con[t] \in Cons
    BY <1>2, <1>t DEF SqlInv, ConHeld, Push
  <2>2. /\ con' = [con EXCEPT ![t] = None]
        /\ connList' = Append(connList, con[t]) /\ closed' = closed
    BY <1>2 DEF Push
  <2>3. \A i \in DOMAIN connList' :
           \/ i \in DOMAIN connList /\ connList'[i] = connList[i]
           \/ connList'[i] = con[t]
    BY <1>t, <2>1, <2>2, PushList
  <2> QED
    BY <1>i, <1>t, <2>2, <2>3 DEF ListOpen, UsesOpenConnection
<1>3. CASE DestroyClose /\ connList # <<>>
  <2>1. /\ con' = con /\ connList' = <<>>
        /\ closed' = closed \cup {connList[i] : i \in DOMAIN connList}
    BY <1>3 DEF DestroyClose
  <2>2. \A i \in DOMAIN connList : connList[i] # None
    BY <1>t, LenProperties DEF TypeOK
  <2> QED
    BY <1>i, <2>1, <2>2 DEF ListOpen, UsesOpenConnection
<1>4. CASE con' = con /\ connList' = connList /\ closed' = closed
  BY <1>i, <1>4 DEF ListOpen, UsesOpenConnection
<1>5. \/ \E t \in Threads : Pop(t) \/ Push(t)
      \/ DestroyClose /\ connList # <<>>
      \/ con' = con /\ connList' = connList /\ closed' = closed
  BY DEF Next, Step, DestroyPool, vars, poolVars, goto, TestSize, Wait,
         LockToGet, PopEmpty, ReleaseNull, LockToRelease, Post, DestroyLock,
         DestroyClose, DestroyUnlock
<1> QED
  BY <1>1, <1>2, <1>3, <1>4, <1>5

\* Until main returns, every step keeps the counts together: Lent and Between
\* gain or lose the thread that moves.
LEMMA CountStep ==
    ASSUME SqlInv, [Next]_vars, Alive'
    PROVE  CountsAgree' /\ FreeConn' + CurConn' = Cardinality(Cons)
<1> USE SqlPoolAssumption DEF poolVars, goto
<1>a. Alive
  BY DEF Alive, Next, Step, DestroyPool, vars, TestSize, Wait, LockToGet, Pop,
         PopEmpty, ReleaseNull, LockToRelease, Push, Post, DestroyLock, DestroyClose,
         DestroyUnlock
<1>t. /\ TypeOK /\ connList \in Seq(Cons) /\ Len(connList) \in Nat
      /\ FreeConn \in 0..UINT_MAX /\ CurConn \in 0..UINT_MAX /\ reserve \in Nat
      /\ pc \in [Threads -> {"out", "null", "wait", "lock", "pop", "using",
                             "push", "post", "undefined"}]
      /\ con \in [Threads -> Cons \cup {None}]
      /\ UINT_MAX \in Nat /\ Cardinality(Cons) <= UINT_MAX
  BY LenProperties DEF SqlInv, TypeOK
<1>n. Cardinality(Cons) \in Nat
  BY FS_CardinalityType
<1>c. /\ Cardinality(Lent) \in Nat /\ Cardinality(Between) \in Nat
      /\ Lent # {} => Cardinality(Lent) > 0
  BY SubsetCount DEF Lent, Between
<1>i. /\ FreeConn = Len(connList) /\ CurConn = Cardinality(Lent)
      /\ Len(connList) = reserve + Cardinality(Between)
      /\ FreeConn + CurConn = Cardinality(Cons)
  BY <1>a DEF SqlInv, CountsAgree, NoneMissing, Lent, Between
<1>12. ASSUME NEW t \in Threads, PopEmpty(t) PROVE FALSE
  <2>1. pc[t] = "pop" /\ connList = <<>>
    BY <1>12 DEF PopEmpty
  <2>2. t \in Between
    BY <2>1 DEF Between
  <2>3. Cardinality(Between) > 0
    BY <2>2, SubsetCount DEF Between
  <2>4. Len(connList) = 0
    BY <2>1
  <2> QED
    BY <1>t, <1>c, <1>i, <2>3, <2>4
<1>u. \A t \in Threads : pc'[t] # "undefined"
  <2>1. \A t \in Threads : pc[t] # "undefined"
    BY <1>a DEF SqlInv, CountsAgree
  <2> QED
    BY <1>12, <1>t, <2>1 DEF Next, Step, DestroyPool, vars, TestSize, Wait,
         LockToGet, Pop, ReleaseNull, LockToRelease, Push, Post, DestroyLock,
         DestroyClose, DestroyUnlock
<1>q. SUFFICES /\ FreeConn' = Len(connList') /\ CurConn' = Cardinality(Lent')
               /\ Len(connList') = reserve' + Cardinality(Between')
               /\ FreeConn' + CurConn' = Cardinality(Cons)
  BY <1>u DEF CountsAgree, Lent, Between
<1> DEFINE Goal == /\ FreeConn' = Len(connList') /\ CurConn' = Cardinality(Lent')
                   /\ Len(connList') = reserve' + Cardinality(Between')
                   /\ FreeConn' + CurConn' = Cardinality(Cons)
<1>1. ASSUME NEW t \in Threads, TestSize(t) PROVE Goal
  <2>1. Lent' = Lent /\ Between' = Between
    BY <1>1, <1>t DEF TestSize, Lent, Between
  <2> QED
    BY <1>1, <1>i, <2>1 DEF TestSize
<1>2. ASSUME NEW t \in Threads, Wait(t) PROVE Goal
  <2>1. Lent' = Lent /\ t \notin Between /\ Between' = Between \cup {t}
    BY <1>2, <1>t DEF Wait, Lent, Between
  <2>2. Cardinality(Between') = Cardinality(Between) + 1
    BY <2>1, SubsetCount DEF Between
  <2> QED
    BY <1>2, <1>i, <1>t, <1>c, <2>1, <2>2 DEF Wait
<1>3. ASSUME NEW t \in Threads, LockToGet(t) PROVE Goal
  <2>1. Lent' = Lent /\ Between' = Between
    BY <1>3, <1>t DEF LockToGet, Lent, Between
  <2> QED
    BY <1>3, <1>i, <2>1 DEF LockToGet
<1>4. ASSUME NEW t \in Threads, Pop(t) PROVE Goal
  <2>1. Head(connList) # None /\ Len(connList') = Len(connList) - 1
        /\ Len(connList) # 0
    BY <1>4, <1>t, PopList DEF Pop
  <2>2. /\ t \notin Lent /\ Lent' = Lent \cup {t}
        /\ t \in Between /\ Between' = Between \ {t}
    BY <1>4, <1>t, <2>1 DEF Pop, Lent, Between, SqlInv, ConHeld
  <2>3. /\ Cardinality(Lent') = Cardinality(Lent) + 1
        /\ Cardinality(Between') = Cardinality(Between) - 1
    BY <2>2, SubsetCount DEF Lent, Between
  <2>4. FreeConn' = FreeConn - 1 /\ CurConn' = CurConn + 1
    BY <1>4, <1>i, <1>t, <1>n, <2>1 DEF Pop, Inc, Dec
  <2>5. reserve' = reserve
    BY <1>4 DEF Pop
  <2>6. FreeConn' = Len(connList') /\ CurConn' = Cardinality(Lent')
    BY <1>i, <2>1, <2>3, <2>4
  <2>7. Len(connList') = reserve' + Cardinality(Between')
    BY <1>i, <1>t, <1>c, <2>1, <2>3, <2>5
  <2>8. FreeConn' + CurConn' = Cardinality(Cons)
    <3>1. FreeConn \in Int /\ CurConn \in Int
      BY <1>t
    <3>2. (FreeConn - 1) + (CurConn + 1) = FreeConn + CurConn
      BY ONLY <3>1
    <3>3. FreeConn + CurConn = Cardinality(Cons)
      BY <1>i
    <3> QED
      BY ONLY <2>4, <3>2, <3>3
  <2> QED
    BY <2>6, <2>7, <2>8
<1>5. ASSUME NEW t \in Threads, ReleaseNull(t) PROVE Goal
  <2>1. Lent' = Lent /\ Between' = Between
    BY <1>5, <1>t DEF ReleaseNull, Lent, Between
  <2> QED
    BY <1>5, <1>i, <2>1 DEF ReleaseNull
<1>6. ASSUME NEW t \in Threads, LockToRelease(t) PROVE Goal
  <2>1. Lent' = Lent /\ Between' = Between
    BY <1>6, <1>t DEF LockToRelease, Lent, Between
  <2> QED
    BY <1>6, <1>i, <2>1 DEF LockToRelease
<1>7. ASSUME NEW t \in Threads, Push(t) PROVE Goal
  <2>1. t \in Lent /\ con[t] \in Cons
    BY <1>7, <1>t DEF Push, Lent, SqlInv, ConHeld
  <2>2. Len(connList') = Len(connList) + 1
    BY <1>7, <1>t, <2>1, PushList DEF Push
  <2>3. /\ Lent' = Lent \ {t} /\ t \notin Between
        /\ Between' = Between \cup {t}
    BY <1>7, <1>t DEF Push, Lent, Between
  <2>4. /\ Cardinality(Lent') = Cardinality(Lent) - 1
        /\ Cardinality(Between') = Cardinality(Between) + 1
    BY <2>1, <2>3, SubsetCount DEF Lent, Between
  <2>5. FreeConn' = FreeConn + 1 /\ CurConn' = CurConn - 1
    <3>1. CurConn > 0 /\ FreeConn < UINT_MAX
      BY <1>i, <1>t, <1>n, <1>c, <2>1
    <3>2. Inc(FreeConn) = FreeConn + 1 /\ Dec(CurConn) = CurConn - 1
      BY <1>t, <3>1 DEF Inc, Dec
    <3> QED
      BY <1>7, <3>2 DEF Push
  <2>6. reserve' = reserve
    BY <1>7 DEF Push
  <2>7. FreeConn' = Len(connList') /\ CurConn' = Cardinality(Lent')
    BY <1>i, <2>2, <2>4, <2>5
  <2>8. Len(connList') = reserve' + Cardinality(Between')
    BY <1>i, <1>t, <1>c, <2>2, <2>4, <2>6
  <2>9. FreeConn' + CurConn' = Cardinality(Cons)
    <3>1. FreeConn \in Int /\ CurConn \in Int
      BY <1>t
    <3>2. (FreeConn + 1) + (CurConn - 1) = FreeConn + CurConn
      BY ONLY <3>1
    <3>3. FreeConn + CurConn = Cardinality(Cons)
      BY <1>i
    <3> QED
      BY ONLY <2>5, <3>2, <3>3
  <2> QED
    BY <2>7, <2>8, <2>9
<1>8. ASSUME NEW t \in Threads, Post(t) PROVE Goal
  <2>1. Lent' = Lent /\ t \in Between /\ Between' = Between \ {t}
    BY <1>8, <1>t DEF Post, Lent, Between
  <2>2. Cardinality(Between') = Cardinality(Between) - 1
    BY <2>1, SubsetCount DEF Between
  <2> QED
    BY <1>8, <1>i, <1>t, <1>c, <2>1, <2>2 DEF Post
<1>9. CASE DestroyLock
  <2>1. Lent' = Lent /\ Between' = Between
    BY <1>9 DEF DestroyLock, Lent, Between
  <2> QED
    BY <1>9, <1>i, <2>1 DEF DestroyLock
<1>10. CASE UNCHANGED vars
  <2>1. Lent' = Lent /\ Between' = Between
    BY <1>10 DEF vars, Lent, Between
  <2> QED
    BY <1>10, <1>i, <2>1 DEF vars
<1>11. ~DestroyClose /\ ~DestroyUnlock
  BY DEF DestroyClose, DestroyUnlock, Alive
<1> QED
  BY <1>1, <1>2, <1>3, <1>4, <1>5, <1>6, <1>7, <1>8, <1>9, <1>10, <1>11, <1>12
     DEF Next, Step, DestroyPool

\* Until main returns, no step loses a connection.
LEMMA MissingStep ==
    ASSUME SqlInv, [Next]_vars, Alive'
    PROVE  \A c \in Cons : InList(c)' \/ \E t \in Threads : con'[t] = c
<1>a. Alive
  BY DEF Alive, Next, Step, DestroyPool, vars, poolVars, TestSize, Wait,
         LockToGet, Pop, PopEmpty, ReleaseNull, LockToRelease, Push, Post, DestroyLock,
         DestroyClose, DestroyUnlock
<1> SUFFICES ASSUME NEW c \in Cons
             PROVE  InList(c)' \/ \E t \in Threads : con'[t] = c
  OBVIOUS
<1>i. \/ \E i \in DOMAIN connList : connList[i] = c
      \/ \E t \in Threads : con[t] = c
  BY <1>a DEF SqlInv, NoneMissing, InList
<1>t. TypeOK /\ con \in [Threads -> Cons \cup {None}] /\ None \notin Cons
  BY SqlPoolAssumption DEF SqlInv, TypeOK
<1>1. ASSUME NEW t \in Threads, Pop(t)
      PROVE  InList(c)' \/ \E u \in Threads : con'[u] = c
  <2>1. /\ con' = [con EXCEPT ![t] = connList[1]] /\ con[t] = None
        /\ connList' = Tail(connList) /\ connList # <<>>
    BY <1>1, <1>t, PopList DEF Pop, SqlInv, ConHeld
  <2>2. /\ DOMAIN connList = 1..Len(connList) /\ Len(connList) \in Nat \ {0}
        /\ DOMAIN connList' = 1..(Len(connList) - 1)
        /\ \A i \in DOMAIN connList' : connList'[i] = connList[i + 1]
    BY <1>t, <2>1, PopList
  <2>3. ASSUME NEW i \in DOMAIN connList, connList[i] = c, i # 1
        PROVE  InList(c)'
    <3>1. i - 1 \in DOMAIN connList' /\ connList'[i - 1] = c
      BY <2>2, <2>3
    <3> QED
      BY <3>1 DEF InList
  <2>4. ASSUME NEW u \in Threads, con[u] = c PROVE con'[u] = c
    BY <1>t, <2>1, <2>4
  <2> QED
    BY <1>i, <1>t, <2>1, <2>3, <2>4
<1>2. ASSUME NEW t \in Threads, Push(t)
      PROVE  InList(c)' \/ \E u \in Threads : con'[u] = c
  <2>1. con[t] \in Cons
    BY <1>2, <1>t DEF SqlInv, ConHeld, Push
  <2>2. /\ con' = [con EXCEPT ![t] = None]
        /\ connList' = Append(connList, con[t])
    BY <1>2 DEF Push
  <2>3. /\ \A i \in DOMAIN connList :
              i \in DOMAIN connList' /\ connList'[i] = connList[i]
        /\ Len(connList) + 1 \in DOMAIN connList'
        /\ connList'[Len(connList) + 1] = con[t]
    BY <1>t, <2>1, <2>2, PushList
  <2> QED
    BY <1>i, <1>t, <2>2, <2>3 DEF InList
<1>3. CASE con' = con /\ connList' = connList
  BY <1>i, <1>3 DEF InList
<1>4. \/ \E t \in Threads : Pop(t) \/ Push(t)
      \/ con' = con /\ connList' = connList
  BY DEF Next, Step, DestroyPool, vars, poolVars, goto, TestSize, Wait,
         LockToGet, PopEmpty, ReleaseNull, LockToRelease, Post, DestroyLock,
         DestroyClose, DestroyUnlock, Alive
<1> QED
  BY <1>1, <1>2, <1>3, <1>4

\* The invariant is inductive and holds in every reachable state.
LEMMA SqlInductive == Spec => []SqlInv
<1>1. Init => SqlInv
  BY SqlInitially
<1>2. ASSUME SqlInv, [Next]_vars PROVE SqlInv'
  <2>1. CountsAgree' /\ NoneMissing'
    BY <1>2, CountStep, MissingStep DEF CountsAgree, NoneMissing
  <2> QED
    BY <1>2, <2>1, SqlTypes, SharingStep, OpenStep DEF SqlInv
<1> QED
  BY <1>1, <1>2, PTL DEF Spec

\* No two threads have one connection and none is free and lent at once, for
\* as long as the mutex excludes, also beside DestroyPool.
THEOREM ConnectionsNotShared == Spec => []NoSharing
<1>1. SqlInv => NoSharing
  BY DEF SqlInv
<1> QED
  BY <1>1, SqlInductive, PTL

\* The list, its two unsigned counters and the semaphore agree until main
\* returns; so the counters never wrap around and front() has a connection.
THEOREM PoolCountsExact == Spec => []CountsAgree
<1>1. SqlInv => CountsAgree
  BY DEF SqlInv
<1> QED
  BY <1>1, SqlInductive, PTL

\* mysql_close is never called for a connection that a thread has.
THEOREM NoUseAfterClose == Spec => []UsesOpenConnection
<1>1. SqlInv => UsesOpenConnection
  BY DEF SqlInv
<1> QED
  BY <1>1, SqlInductive, PTL

\* GetConnection returns NULL only when every connection is with another thread,
\* up to that thread's push_back.
THEOREM NullMeansAllLent == Spec => NullOnlyWhenAllLent
<1> DEFINE A == \A t \in Threads :
                   Alive /\ pc[t] = "out" /\ pc'[t] = "null" =>
                       \A c \in Cons : \E u \in Threads \ {t} : con[u] = c
<1>1. ASSUME SqlInv, [Next]_vars PROVE A
  <2> SUFFICES ASSUME NEW t \in Threads, Alive, pc[t] = "out", pc'[t] = "null",
                      NEW c \in Cons
               PROVE  \E u \in Threads \ {t} : con[u] = c
    OBVIOUS
  <2>1. connList = <<>>
    BY <1>1 DEF Next, Step, DestroyPool, vars, poolVars, goto, TestSize, Wait,
         LockToGet, Pop, PopEmpty, ReleaseNull, LockToRelease, Push, Post, DestroyLock,
         DestroyClose, DestroyUnlock, SqlInv, TypeOK
  <2>2. \E u \in Threads : con[u] = c
    BY <1>1, <2>1 DEF SqlInv, NoneMissing, InList
  <2>3. con[t] # c
    BY <1>1, SqlPoolAssumption DEF SqlInv, ConHeld
  <2> QED
    BY <2>2, <2>3
<1> QED
  BY <1>1, SqlInductive, PTL DEF Spec, NullOnlyWhenAllLent
-----------------------------------------------------------------------------
(* Accounts, with the same threads.  Its pc is called stage here.          *)

CONSTANTS Names, Passwords, Empty
VARIABLES table, m_lock, stage, req, res

Acc == INSTANCE Accounts WITH pc <- stage

\* Whatever was welcomed is what the map has, unless operator[] missed the name.
WelcomedInMap ==
    \A f \in welcomed : f[1] \in DOMAIN users
                        /\ (users[f[1]] = f[2] \/ f[1] \in torn)

\* A name that a login has found stays in the map until it is looked up again.
LoginFound == \A t \in Threads : stage[t] = "login" => Acc!Name(t) \in DOMAIN users

\* A registration that is confirmed, or is about to be, is in the table.
ConfirmedInTable ==
    /\ confirmed \subseteq table
    /\ \A t \in Threads : stage[t] = "insert" /\ res[t] => req[t] \in table

\* The name of every row is in the map, or the thread that made a row of that
\* name is about to put it there: a crash in between only moves it to the next
\* initmysql_result.
TableCovered ==
    \A r \in table : \/ r[1] \in DOMAIN users
                     \/ \E t \in Threads : stage[t] = "insert" /\ Acc!Name(t) = r[1]

\* A name being registered is not in the map, and nobody else registers it,
\* unless it has raced.
FreshName ==
    \A t \in Threads : Acc!Registering(t) /\ Acc!Name(t) \notin raced =>
        /\ Acc!Name(t) \notin DOMAIN users
        /\ \A u \in Threads \ {t} : ~Acc!Registering(u) \/ Acc!Name(u) # Acc!Name(t)

\* A name that has not raced has at most one row.
OneRow == \A r, s \in table : r[1] = s[1] /\ r # s => r[1] \in raced

\* The inductive invariant.
AccountsInv ==
    /\ Acc!TypeOK /\ WelcomedInMap /\ LoginFound /\ ConfirmedInTable
    /\ TableCovered /\ FreshName /\ OneRow /\ RegistrationCounts

\* A form is its name and its password.
LEMMA FormParts ==
    /\ \A f \in Acc!Forms : f[1] \in Names /\ f[2] \in Passwords
    /\ \A f, g \in Acc!Forms : f[1] = g[1] /\ f[2] = g[2] => f = g
    /\ \A n, p : <<n, p>>[1] = n /\ <<n, p>>[2] = p
BY DEF Acc!Forms

\* The invariant holds in the beginning.
LEMMA AccountsInitially == ASSUME Acc!Init PROVE AccountsInv
<1>1. DOMAIN users = {} /\ table = {}
  BY DEF Acc!Init
<1>2. Acc!TypeOK
  BY <1>1 DEF Acc!Init, Acc!TypeOK
<1>3. WelcomedInMap /\ ConfirmedInTable /\ TableCovered /\ OneRow
      /\ RegistrationCounts
  BY <1>1 DEF Acc!Init, WelcomedInMap, ConfirmedInTable, TableCovered, OneRow,
              RegistrationCounts
<1>4. FreshName /\ LoginFound
  BY DEF Acc!Init, FreshName, LoginFound, Acc!Registering
<1> QED
  BY <1>2, <1>3, <1>4 DEF AccountsInv

\* What Insert does to the map.
LEMMA MapInsert ==
    ASSUME Acc!TypeOK, NEW t \in Threads, Acc!Insert(t)
    PROVE  /\ DOMAIN users' = DOMAIN users \cup {Acc!Name(t)}
           /\ \A n \in DOMAIN users : users'[n] = users[n]
           /\ Acc!Name(t) \notin DOMAIN users =>
                 users'[Acc!Name(t)] = Acc!Password(t)
           /\ Acc!Name(t) \in Names /\ Acc!Password(t) \in Passwords
<1>1. req[t] \in Acc!Forms
  BY DEF Acc!TypeOK
<1>2. Acc!Name(t) \in Names /\ Acc!Password(t) \in Passwords
  BY <1>1, FormParts DEF Acc!Name, Acc!Password
<1> QED
  BY <1>2 DEF Acc!Insert, Acc!insert

\* What the second lookup of a login does to the map: it has the same names, and
\* only the entry of a name that operator[] missed can differ.
LEMMA MapCompare ==
    ASSUME Acc!TypeOK, NEW t \in Threads, Acc!LoginCompares(t)
    PROVE  /\ DOMAIN users' = DOMAIN users
           /\ \A n \in DOMAIN users' : users'[n] \in Passwords \cup {Empty}
           /\ \A n \in DOMAIN users : users'[n] = users[n] \/ n \in torn'
           /\ welcomed' \subseteq welcomed \cup {req[t]}
           /\ torn \subseteq torn' /\ torn' \subseteq torn \cup {Acc!Name(t)}
           /\ welcomed' = welcomed \/ Acc!Name(t) \in torn'
                 \/ (Acc!Name(t) \in DOMAIN users
                     /\ users[Acc!Name(t)] = Acc!Password(t))
<1> DEFINE n == Acc!Name(t)
<1>1. PICK found \in Acc!Found(n) :
         LET stored == IF found THEN users[n] ELSE Empty IN
         /\ welcomed' = IF stored = Acc!Password(t) THEN welcomed \cup {req[t]}
                                                    ELSE welcomed
         /\ torn' = IF found THEN torn ELSE torn \cup {n}
         /\ users' \in {users, [users EXCEPT ![n] = stored]}
  BY DEF Acc!LoginCompares
<1>2. found \in BOOLEAN /\ (found => n \in DOMAIN users)
  BY DEF Acc!Found
<1> HIDE DEF n
<1>3. CASE found
  <2>1. /\ welcomed' = welcomed
           \/ (welcomed' = welcomed \cup {req[t]} /\ users[n] = Acc!Password(t))
        /\ torn' = torn
        /\ users' \in {users, [users EXCEPT ![n] = users[n]]}
    BY <1>1, <1>3
  <2> QED
    BY <2>1, <1>2, <1>3 DEF Acc!TypeOK, n
<1>4. CASE ~found
  <2>1. /\ welcomed' = welcomed \/ welcomed' = welcomed \cup {req[t]}
        /\ torn' = torn \cup {n}
        /\ users' \in {users, [users EXCEPT ![n] = Empty]}
    BY <1>1, <1>4
  <2> QED
    BY <2>1 DEF Acc!TypeOK, n
<1> QED
  BY <1>2, <1>3, <1>4

\* What a restart makes of the table.
LEMMA MapLoad ==
    ASSUME Acc!initmysql_result
    PROVE  /\ \A n : n \in DOMAIN users' <=> \E r \in table : r[1] = n
           /\ \A n \in DOMAIN users' : <<n, users'[n]>> \in table
BY DEF Acc!initmysql_result, Acc!Loaded

\* Every step keeps the types.
LEMMA AccountsTypes == ASSUME Acc!TypeOK, [Acc!Next]_(Acc!vars) PROVE Acc!TypeOK'
<1> USE DEF Acc!TypeOK
<1>1. ASSUME NEW t \in Threads, NEW f \in Acc!Forms,
             Acc!RegisterFinds(t, f) \/ Acc!LoginMisses(t, f)
      PROVE  Acc!TypeOK'
  BY <1>1 DEF Acc!RegisterFinds, Acc!LoginMisses, Acc!vars, Acc!dbVars, Acc!history
<1>2. ASSUME NEW t \in Threads, NEW f \in Acc!Forms, Acc!RegisterMisses(t, f)
      PROVE  Acc!TypeOK'
  <2>1. f[1] \in Names
    BY FormParts
  <2> QED
    BY <1>2, <2>1 DEF Acc!RegisterMisses, Acc!goto, Acc!dbVars
<1>3. ASSUME NEW t \in Threads, Acc!Lock(t) \/ Acc!Query(t) PROVE Acc!TypeOK'
  <2>1. ASSUME Acc!Lock(t) PROVE Acc!TypeOK'
    BY <2>1 DEF Acc!Lock, Acc!goto, Acc!history
  <2>2. ASSUME Acc!Query(t) PROVE Acc!TypeOK'
    <3>1. res' \in [Threads -> BOOLEAN]
      BY <2>2 DEF Acc!Query
    <3>2. table' \subseteq Acc!Forms
      BY <2>2 DEF Acc!Query
    <3> QED
      BY <2>2, <3>1, <3>2 DEF Acc!Query, Acc!goto, Acc!history
  <2> QED
    BY <1>3, <2>1, <2>2
<1>4. ASSUME NEW t \in Threads, Acc!Insert(t) PROVE Acc!TypeOK'
  <2>1. /\ DOMAIN users' \subseteq Names
        /\ \A n \in DOMAIN users' : users'[n] \in Passwords \cup {Empty}
    BY <1>4, MapInsert
  <2> QED
    BY <1>4, <2>1 DEF Acc!Insert, Acc!goto
<1>5. CASE Acc!initmysql_result
  <2>1. /\ DOMAIN users' \subseteq Names
        /\ \A n \in DOMAIN users' : users'[n] \in Passwords \cup {Empty}
    <3>1. \A n \in DOMAIN users' : <<n, users'[n]>> \in Acc!Forms
      BY <1>5, MapLoad
    <3> QED
      BY <3>1 DEF Acc!Forms
  <2> QED
    BY <1>5, <2>1 DEF Acc!initmysql_result
<1>6. CASE UNCHANGED Acc!vars
  BY <1>6 DEF Acc!vars, Acc!dbVars, Acc!history
<1>7. ASSUME NEW t \in Threads, NEW f \in Acc!Forms, Acc!LoginFinds(t, f)
      PROVE  Acc!TypeOK'
  BY <1>7 DEF Acc!LoginFinds, Acc!goto, Acc!dbVars, Acc!history
<1>8. ASSUME NEW t \in Threads, Acc!LoginCompares(t) PROVE Acc!TypeOK'
  <2>1. /\ DOMAIN users' = DOMAIN users
        /\ \A n \in DOMAIN users' : users'[n] \in Passwords \cup {Empty}
        /\ welcomed' \subseteq welcomed \cup {req[t]}
        /\ torn' \subseteq torn \cup {Acc!Name(t)}
    BY <1>8, MapCompare
  <2>2. req[t] \in Acc!Forms /\ Acc!Name(t) \in Names
    BY FormParts DEF Acc!Name
  <2>3. UNCHANGED <<table, m_lock, req, res, confirmed, raced>>
        /\ stage' = [stage EXCEPT ![t] = "idle"]
    BY <1>8 DEF Acc!LoginCompares, Acc!goto
  <2> QED
    BY <2>1, <2>2, <2>3
<1> QED
  BY <1>1, <1>2, <1>3, <1>4, <1>5, <1>6, <1>7, <1>8 DEF Acc!Next, Acc!do_request

\* A step that changes neither the database nor a registration under way.
LEMMA Elsewhere ==
    ASSUME AccountsInv,
           UNCHANGED <<users, table, stage, req, res, confirmed, welcomed, raced,
                       torn>>
    PROVE  /\ WelcomedInMap' /\ LoginFound' /\ ConfirmedInTable'
           /\ TableCovered' /\ FreshName' /\ OneRow' /\ RegistrationCounts'
BY DEF AccountsInv, WelcomedInMap, LoginFound, ConfirmedInTable, TableCovered,
       FreshName, OneRow, RegistrationCounts, Acc!Name, Acc!Registering

\* find without the lock: a registration begins, and the names it may race
\* with are noted.
LEMMA MissesKeeps ==
    ASSUME AccountsInv, NEW t \in Threads, NEW f \in Acc!Forms,
           Acc!RegisterMisses(t, f)
    PROVE  /\ WelcomedInMap' /\ LoginFound' /\ ConfirmedInTable'
           /\ TableCovered' /\ FreshName' /\ OneRow' /\ RegistrationCounts'
<1> USE DEF AccountsInv, Acc!Name
<1>1. /\ stage[t] = "idle" /\ stage' = [stage EXCEPT ![t] = "lock"]
      /\ req' = [req EXCEPT ![t] = f]
      /\ raced \subseteq raced'
      /\ f[1] \notin raced' => /\ f[1] \notin DOMAIN users
                               /\ \A u \in Threads \ {t} :
                                     ~Acc!Registering(u) \/ req[u][1] # f[1]
      /\ UNCHANGED <<users, table, res, confirmed, welcomed, torn>>
  BY DEF Acc!RegisterMisses, Acc!goto, Acc!dbVars, Acc!Pending
<1>2. /\ stage \in [Threads -> {"idle", "lock", "query", "insert", "login"}]
      /\ req \in [Threads -> Acc!Forms]
  BY DEF Acc!TypeOK
<1>3. WelcomedInMap' /\ OneRow' /\ RegistrationCounts'
  BY <1>1 DEF WelcomedInMap, OneRow, RegistrationCounts
<1>4. ConfirmedInTable' /\ TableCovered' /\ LoginFound'
  BY <1>1, <1>2 DEF ConfirmedInTable, TableCovered, LoginFound
<1>5. FreshName'
  BY <1>1, <1>2 DEF FreshName, Acc!Registering
<1> QED
  BY <1>3, <1>4, <1>5

\* m_lock.lock() changes nothing that matters here.
LEMMA LockKeeps ==
    ASSUME AccountsInv, NEW t \in Threads, Acc!Lock(t)
    PROVE  /\ WelcomedInMap' /\ LoginFound' /\ ConfirmedInTable'
           /\ TableCovered' /\ FreshName' /\ OneRow' /\ RegistrationCounts'
<1> USE DEF AccountsInv, Acc!Name, Acc!Lock, Acc!goto, Acc!history
<1>1. stage \in [Threads -> {"idle", "lock", "query", "insert", "login"}]
  BY DEF Acc!TypeOK
<1>2. WelcomedInMap' /\ OneRow' /\ RegistrationCounts'
  BY DEF WelcomedInMap, OneRow, RegistrationCounts
<1>3. ConfirmedInTable' /\ TableCovered' /\ LoginFound'
  BY <1>1 DEF ConfirmedInTable, TableCovered, LoginFound
<1>4. FreshName'
  BY <1>1 DEF FreshName, Acc!Registering
<1> QED
  BY <1>2, <1>3, <1>4

\* The INSERT: a second row of a name means that the name has raced.
LEMMA QueryKeeps ==
    ASSUME AccountsInv, NEW t \in Threads, Acc!Query(t)
    PROVE  /\ WelcomedInMap' /\ LoginFound' /\ ConfirmedInTable'
           /\ TableCovered' /\ FreshName' /\ OneRow' /\ RegistrationCounts'
<1> USE DEF AccountsInv, Acc!Name
<1>1. /\ stage[t] = "query" /\ stage' = [stage EXCEPT ![t] = "insert"]
      /\ \/ table' = table \cup {req[t]} /\ res' = [res EXCEPT ![t] = TRUE]
         \/ table' = table /\ res' = [res EXCEPT ![t] = FALSE]
      /\ UNCHANGED <<users, req, confirmed, welcomed, raced, torn>>
  BY DEF Acc!Query, Acc!goto, Acc!history
<1>2. /\ stage \in [Threads -> {"idle", "lock", "query", "insert", "login"}]
      /\ res \in [Threads -> BOOLEAN]
  BY DEF Acc!TypeOK
<1>3. WelcomedInMap' /\ RegistrationCounts'
  BY <1>1 DEF WelcomedInMap, RegistrationCounts
<1>4. ConfirmedInTable'
  BY <1>1, <1>2 DEF ConfirmedInTable
<1>5. TableCovered' /\ LoginFound'
  BY <1>1, <1>2 DEF TableCovered, LoginFound
<1>6. FreshName'
  BY <1>1, <1>2 DEF FreshName, Acc!Registering
<1>7. OneRow'
  <2>1. ASSUME NEW r \in table, r[1] = req[t][1] PROVE r[1] \in raced
    <3>1. CASE r[1] \in DOMAIN users
      BY <1>1, <2>1, <3>1 DEF FreshName, Acc!Registering
    <3>2. ASSUME NEW u \in Threads, stage[u] = "insert", req[u][1] = r[1]
          PROVE  r[1] \in raced
      BY <1>1, <2>1, <3>2 DEF FreshName, Acc!Registering
    <3> QED
      BY <3>1, <3>2 DEF TableCovered
  <2> QED
    BY <1>1, <2>1 DEF OneRow
<1> QED
  BY <1>3, <1>4, <1>5, <1>6, <1>7

\* The insert into the map and the reply.
LEMMA InsertKeeps ==
    ASSUME AccountsInv, NEW t \in Threads, Acc!Insert(t)
    PROVE  /\ WelcomedInMap' /\ LoginFound' /\ ConfirmedInTable'
           /\ TableCovered' /\ FreshName' /\ OneRow' /\ RegistrationCounts'
<1> USE DEF AccountsInv
<1>1. /\ stage[t] = "insert" /\ stage' = [stage EXCEPT ![t] = "idle"]
      /\ confirmed' = IF res[t] THEN confirmed \cup {req[t]} ELSE confirmed
      /\ UNCHANGED <<table, req, res, welcomed, raced, torn>>
  BY DEF Acc!Insert, Acc!goto, Acc!Page
<1>2. /\ DOMAIN users' = DOMAIN users \cup {req[t][1]}
      /\ \A n \in DOMAIN users : users'[n] = users[n]
      /\ req[t][1] \notin DOMAIN users => users'[req[t][1]] = req[t][2]
  BY MapInsert DEF Acc!Name, Acc!Password
<1>3. stage \in [Threads -> {"idle", "lock", "query", "insert", "login"}]
  BY DEF Acc!TypeOK
<1>4. WelcomedInMap' /\ OneRow'
  BY <1>1, <1>2 DEF WelcomedInMap, OneRow
<1>5. ConfirmedInTable'
  BY <1>1, <1>3 DEF ConfirmedInTable
<1>6. TableCovered' /\ LoginFound'
  BY <1>1, <1>2, <1>3 DEF TableCovered, LoginFound, Acc!Name
<1>7. FreshName'
  BY <1>1, <1>2, <1>3 DEF FreshName, Acc!Name, Acc!Registering
<1>8. RegistrationCounts'
  <2>1. req[t][1] \in DOMAIN users => req[t][1] \in raced
    BY <1>1 DEF FreshName, Acc!Name, Acc!Registering
  <2> QED
    BY <1>1, <1>2, <2>1 DEF RegistrationCounts
<1> QED
  BY <1>4, <1>5, <1>6, <1>7, <1>8

\* The first lookup of a login.
LEMMA FindsKeeps ==
    ASSUME AccountsInv, NEW t \in Threads, NEW f \in Acc!Forms,
           Acc!LoginFinds(t, f)
    PROVE  /\ WelcomedInMap' /\ LoginFound' /\ ConfirmedInTable'
           /\ TableCovered' /\ FreshName' /\ OneRow' /\ RegistrationCounts'
<1> USE DEF AccountsInv, Acc!Name
<1>1. /\ stage[t] = "idle" /\ stage' = [stage EXCEPT ![t] = "login"]
      /\ req' = [req EXCEPT ![t] = f] /\ f[1] \in DOMAIN users
      /\ UNCHANGED <<users, table, res, confirmed, welcomed, raced, torn>>
  BY DEF Acc!LoginFinds, Acc!goto, Acc!dbVars, Acc!history, Acc!Found
<1>2. /\ stage \in [Threads -> {"idle", "lock", "query", "insert", "login"}]
      /\ req \in [Threads -> Acc!Forms]
  BY DEF Acc!TypeOK
<1>3. WelcomedInMap' /\ OneRow' /\ RegistrationCounts'
  BY <1>1 DEF WelcomedInMap, OneRow, RegistrationCounts
<1>4. ConfirmedInTable' /\ TableCovered' /\ LoginFound'
  BY <1>1, <1>2 DEF ConfirmedInTable, TableCovered, LoginFound
<1>5. FreshName'
  BY <1>1, <1>2 DEF FreshName, Acc!Registering
<1> QED
  BY <1>3, <1>4, <1>5

\* The second lookup, and the reply.
LEMMA ComparesKeeps ==
    ASSUME AccountsInv, NEW t \in Threads, Acc!LoginCompares(t)
    PROVE  /\ WelcomedInMap' /\ LoginFound' /\ ConfirmedInTable'
           /\ TableCovered' /\ FreshName' /\ OneRow' /\ RegistrationCounts'
<1> USE DEF AccountsInv, Acc!Name
<1>1. /\ stage[t] = "login" /\ stage' = [stage EXCEPT ![t] = "idle"]
      /\ UNCHANGED <<table, req, res, confirmed, raced>>
  BY DEF Acc!LoginCompares, Acc!goto
<1>2. /\ stage \in [Threads -> {"idle", "lock", "query", "insert", "login"}]
      /\ req \in [Threads -> Acc!Forms]
  BY DEF Acc!TypeOK
<1>3. /\ DOMAIN users' = DOMAIN users
      /\ \A n \in DOMAIN users : users'[n] = users[n] \/ n \in torn'
      /\ welcomed' \subseteq welcomed \cup {req[t]} /\ torn \subseteq torn'
      /\ welcomed' = welcomed \/ req[t][1] \in torn'
            \/ (req[t][1] \in DOMAIN users /\ users[req[t][1]] = req[t][2])
  BY MapCompare DEF Acc!Password
<1>4. req[t][1] \in DOMAIN users
  BY <1>1 DEF LoginFound
<1>5. WelcomedInMap'
  BY <1>3, <1>4 DEF WelcomedInMap
<1>6. OneRow' /\ RegistrationCounts'
  BY <1>1, <1>3 DEF OneRow, RegistrationCounts
<1>7. ConfirmedInTable' /\ TableCovered' /\ LoginFound'
  BY <1>1, <1>2, <1>3 DEF ConfirmedInTable, TableCovered, LoginFound
<1>8. FreshName'
  BY <1>1, <1>2, <1>3 DEF FreshName, Acc!Registering
<1> QED
  BY <1>5, <1>6, <1>7, <1>8

\* A restart: the table has every confirmed registration, and only one row of
\* a name that has not raced.
LEMMA RestartKeeps ==
    ASSUME AccountsInv, Acc!initmysql_result
    PROVE  /\ WelcomedInMap' /\ LoginFound' /\ ConfirmedInTable'
           /\ TableCovered' /\ FreshName' /\ OneRow' /\ RegistrationCounts'
<1> USE DEF AccountsInv
<1>1. /\ stage' = [t \in Threads |-> "idle"] /\ welcomed' = {}
      /\ UNCHANGED <<table, req, res, confirmed, raced>>
  BY DEF Acc!initmysql_result
<1>2. /\ \A r \in table : r[1] \in DOMAIN users'
      /\ \A n \in DOMAIN users' : <<n, users'[n]>> \in table
  BY MapLoad
<1>3. WelcomedInMap' /\ OneRow'
  BY <1>1 DEF WelcomedInMap, OneRow
<1>4. ConfirmedInTable' /\ TableCovered' /\ FreshName' /\ LoginFound'
  BY <1>1, <1>2 DEF ConfirmedInTable, TableCovered, FreshName, LoginFound,
                    Acc!Registering
<1>5. RegistrationCounts'
  <2> SUFFICES ASSUME NEW f \in confirmed, f[1] \notin raced
               PROVE  f[1] \in DOMAIN users' /\ users'[f[1]] = f[2]
    BY <1>1, <1>2 DEF RegistrationCounts, ConfirmedInTable
  <2>1. f \in table /\ f[1] \in DOMAIN users'
    BY <1>2 DEF ConfirmedInTable
  <2>2. <<f[1], users'[f[1]]>> \in table
    BY <1>2, <2>1
  <2>3. <<f[1], users'[f[1]]>> = f
    BY <2>1, <2>2, FormParts DEF OneRow
  <2> QED
    BY <2>1, <2>3, FormParts
<1> QED
  BY <1>3, <1>4, <1>5

\* Every step preserves the invariant.
LEMMA AccountsInductive == ASSUME AccountsInv, [Acc!Next]_(Acc!vars) PROVE AccountsInv'
<1>t. Acc!TypeOK'
  BY AccountsTypes DEF AccountsInv
<1> DEFINE Rest == /\ WelcomedInMap' /\ LoginFound' /\ ConfirmedInTable'
                   /\ TableCovered' /\ FreshName' /\ OneRow' /\ RegistrationCounts'
<1>1. ASSUME NEW t \in Threads, NEW f \in Acc!Forms,
             Acc!RegisterFinds(t, f) \/ Acc!LoginMisses(t, f)
      PROVE  Rest
  <2>1. UNCHANGED <<users, table, stage, req, res, confirmed, welcomed, raced, torn>>
    BY <1>1 DEF Acc!RegisterFinds, Acc!LoginMisses, Acc!vars, Acc!dbVars, Acc!history
  <2> QED
    BY <2>1, Elsewhere
<1>2. ASSUME NEW t \in Threads, NEW f \in Acc!Forms, Acc!LoginFinds(t, f)
      PROVE  Rest
  BY <1>2, FindsKeeps
<1>3. ASSUME NEW t \in Threads, NEW f \in Acc!Forms, Acc!RegisterMisses(t, f)
      PROVE  Rest
  BY <1>3, MissesKeeps
<1>4. ASSUME NEW t \in Threads, Acc!Lock(t) PROVE Rest
  BY <1>4, LockKeeps
<1>5. ASSUME NEW t \in Threads, Acc!Query(t) PROVE Rest
  BY <1>5, QueryKeeps
<1>6. ASSUME NEW t \in Threads, Acc!Insert(t) PROVE Rest
  BY <1>6, InsertKeeps
<1>7. ASSUME Acc!initmysql_result PROVE Rest
  BY <1>7, RestartKeeps
<1>8. ASSUME UNCHANGED Acc!vars PROVE Rest
  <2>1. UNCHANGED <<users, table, stage, req, res, confirmed, welcomed, raced, torn>>
    BY <1>8 DEF Acc!vars, Acc!dbVars, Acc!history
  <2> QED
    BY <2>1, Elsewhere
<1>9. ASSUME NEW t \in Threads, Acc!LoginCompares(t) PROVE Rest
  BY <1>9, ComparesKeeps
<1>10. Rest
  BY <1>1, <1>2, <1>3, <1>4, <1>5, <1>6, <1>7, <1>8, <1>9
     DEF Acc!Next, Acc!do_request
<1> QED
  BY <1>t, <1>10 DEF AccountsInv

\* The invariant holds in every reachable state.
LEMMA AccountsInvariant == Acc!Spec => []AccountsInv
<1>1. Acc!Init => AccountsInv
  BY AccountsInitially
<1>2. AccountsInv /\ [Acc!Next]_(Acc!vars) => AccountsInv'
  BY AccountsInductive
<1> QED
  BY <1>1, <1>2, PTL DEF Acc!Spec

\* From one start of the server to the next, no two passwords of a name are
\* both welcomed, although both lookups run beside the inserts of other threads,
\* unless the second one, operator[], missed the name and changed the map.
THEOREM NamesHaveOnePassword == Acc!Spec => []OnePassword
<1>1. AccountsInv => OnePassword
  BY FormParts DEF AccountsInv, Acc!TypeOK, WelcomedInMap, OnePassword
<1> QED
  BY <1>1, AccountsInvariant, PTL

\* Who was told that the registration succeeded can log in, now and after any
\* restart, unless a second registration of the name got past the find or, until
\* the restart, a login's operator[] missed the name.
THEOREM ConfirmedCanLogIn == Acc!Spec => []RegistrationCounts
<1>1. AccountsInv => RegistrationCounts
  BY DEF AccountsInv
<1> QED
  BY <1>1, AccountsInvariant, PTL
=============================================================================
