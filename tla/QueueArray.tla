----------------------------- MODULE QueueArray -----------------------------
(***************************************************************************)
(* The circular array of inc/block_queue.h and the queue it stands for.    *)
(* BlockQueue is the code that works on it.                                *)
(***************************************************************************)
EXTENDS Integers, Sequences

CONSTANTS Items, Consumers,
          m_max_size   \* slots of m_array

VARIABLES m_array, m_size, m_front, m_back,
          popped     \* popped[c]: what pop returned to c

\* The items in the queue, oldest first: m_front is the slot before the oldest.
Content == [i \in 1..m_size |-> m_array[(m_front + i) % m_max_size]]

\* The array, whatever the threads do with it under its lock, is a first-in
\* first-out queue of bounded length.
Fifo == INSTANCE BoundedFifo WITH MAX_SIZE <- m_max_size, content <- Content,
                                  got <- popped
ImplementsFifo == Fifo!FifoSpec
=============================================================================
