---------------------------- MODULE BoundedFifo ----------------------------
(***************************************************************************)
(* What inc/block_queue.h promises: a first-in first-out queue of at most  *)
(* MAX_SIZE items; push fails when it is full, pop returns the oldest item *)
(* and waits when there is none.                                           *)
(***************************************************************************)
EXTENDS Naturals, Sequences

CONSTANTS Items, Consumers, MAX_SIZE

VARIABLES content,  \* the items, oldest first
          got       \* got[c]: the items pop returned to c, in order

fifoVars == <<content, got>>

FifoInit ==
    /\ content = <<>>
    /\ got = [c \in Consumers |-> <<>>]

Put(x) ==
    /\ Len(content) < MAX_SIZE
    /\ content' = Append(content, x)
    /\ UNCHANGED got

Get(c) ==
    /\ content # <<>>
    /\ got' = [got EXCEPT ![c] = Append(@, Head(content))]
    /\ content' = Tail(content)

Drop ==
    /\ content' = <<>>
    /\ UNCHANGED got

FifoNext == (\E x \in Items : Put(x)) \/ (\E c \in Consumers : Get(c)) \/ Drop

FifoSpec == FifoInit /\ [][FifoNext]_fifoVars
=============================================================================
