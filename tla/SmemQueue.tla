----------------------------- MODULE SmemQueue -----------------------------
(***************************************************************************)
(* The queue of shared-memory ids in a consumer's context                  *)
(* (redis/test/smem_client.c): a ring of SMEM_MAX_QUEUE_LENGTH slots with  *)
(* no lock, pushed by the thread of the asynchronous connection            *)
(* (subCallback) and popped by the application (smemGetShareMemory).       *)
(*                                                                         *)
(* A step is one access to memory that both threads use.  redis/build.sh   *)
(* compiles the library without optimisation for x86, so stores take       *)
(* effect in the order of the program.  An optimising build may exchange   *)
(* the two stores of a push; it is not modelled (EndFirst shows what would *)
(* happen).                                                                *)
(***************************************************************************)
EXTENDS Integers, Sequences

CONSTANTS
  Values,   \* what is pushed
  NoValue,  \* what a pop returns from an empty queue (-1)
  N         \* SMEM_MAX_QUEUE_LENGTH (256)

ASSUME QueueConstants == N \in Nat /\ N > 1 /\ NoValue \notin Values

VARIABLES
  queue, queue_head, queue_end,  \* c->queue, c->queue_head, c->queue_end
  push,    \* the pushing thread: where it is, and its value
  pop,     \* the popping thread: where it is, and the value it read
  pushed,  \* what the last push returned
  got      \* what the last pop returned

qvars == <<queue, queue_head, queue_end, push, pop, pushed, got>>
Slots == 0..(N - 1)

QueueInit ==
  /\ queue = [i \in Slots |-> NoValue]
  /\ queue_head = 0 /\ queue_end = 0
  /\ push = [at |-> "idle", val |-> NoValue]
  /\ pop = [at |-> "idle", val |-> NoValue]
  /\ pushed = TRUE /\ got = NoValue

After(i) == (i + 1) % N

queue_full == After(queue_end) = queue_head
queue_empty == queue_end = queue_head

\* smem_queue_push: the test, then the two stores.
PushBegin(v) ==
  /\ push.at = "idle"
  /\ IF queue_full
     THEN pushed' = FALSE /\ UNCHANGED push
     ELSE push' = [at |-> "slot", val |-> v] /\ UNCHANGED pushed
  /\ UNCHANGED <<queue, queue_head, queue_end, pop, got>>

StoreSlot ==
  /\ queue' = [queue EXCEPT ![queue_end] = push.val]
  /\ UNCHANGED queue_end
StoreEnd ==
  /\ queue_end' = After(queue_end)
  /\ UNCHANGED queue

\* (EndFirst, and the variants below, have a plausible mistake and are not
\* used.)
EndFirst ==
  /\ \/ /\ push.at = "slot" /\ push' = [push EXCEPT !.at = "end"]
        /\ StoreEnd /\ UNCHANGED pushed
     \/ /\ push.at = "end" /\ push' = [push EXCEPT !.at = "idle"]
        /\ queue' = [queue EXCEPT ![(queue_end + N - 1) % N] = push.val]
        /\ pushed' = TRUE /\ UNCHANGED queue_end
  /\ UNCHANGED <<queue_head, pop, got>>
PushStores ==
  /\ \/ /\ push.at = "slot" /\ push' = [push EXCEPT !.at = "end"]
        /\ StoreSlot /\ UNCHANGED pushed
     \/ /\ push.at = "end" /\ push' = [push EXCEPT !.at = "idle"]
        /\ StoreEnd /\ pushed' = TRUE
  /\ UNCHANGED <<queue_head, pop, got>>

\* smem_queue_pop: the test, the load of the value, the store of the head.
NotTested ==
  /\ pop.at = "idle"
  /\ pop' = [pop EXCEPT !.at = "slot"]
  /\ UNCHANGED <<queue, queue_head, queue_end, push, pushed, got>>
PopBegin ==
  /\ pop.at = "idle"
  /\ IF queue_empty
     THEN got' = NoValue /\ UNCHANGED pop
     ELSE pop' = [pop EXCEPT !.at = "slot"] /\ UNCHANGED got
  /\ UNCHANGED <<queue, queue_head, queue_end, push, pushed>>

PopLoad ==
  /\ pop.at = "slot"
  /\ pop' = [at |-> "head", val |-> queue[queue_head]]
  /\ UNCHANGED <<queue, queue_head, queue_end, push, pushed, got>>

HeadKept ==
  /\ pop.at = "head"
  /\ got' = pop.val
  /\ pop' = [pop EXCEPT !.at = "idle"]
  /\ UNCHANGED <<queue, queue_head, queue_end, push, pushed>>
PopStore ==
  /\ pop.at = "head"
  /\ queue_head' = After(queue_head)
  /\ got' = pop.val
  /\ pop' = [pop EXCEPT !.at = "idle"]
  /\ UNCHANGED <<queue, queue_end, push, pushed>>

\* The number of slots from h up to e.
Distance(h, e) == (e - h + N) % N

smem_queue_size == Distance(queue_head, queue_end)

PopNext == PopBegin \/ PopLoad \/ PopStore
QueueNext == (\E v \in Values : PushBegin(v)) \/ PushStores \/ PopNext

QueueSpec == QueueInit /\ [][QueueNext]_qvars

\* The application asks for frames for as long as it runs.
QueueFairSpec == QueueSpec /\ WF_qvars(PopNext)
-----------------------------------------------------------------------------
\* The type invariant of the ring.
QueueTypeOK ==
  /\ queue \in [Slots -> Values \cup {NoValue}]
  /\ queue_head \in Slots /\ queue_end \in Slots
  /\ push \in [at : {"idle", "slot", "end"}, val : Values \cup {NoValue}]
  /\ pop \in [at : {"idle", "slot", "head"}, val : Values \cup {NoValue}]
  /\ pushed \in BOOLEAN
  /\ got \in Values \cup {NoValue}

\* The threads never touch the same slot: the one that push fills is outside
\* of what pop may read, also when the ring is as full as it gets.
NoSlotShared ==
  ~ (push.at \in {"slot", "end"} /\ pop.at \in {"slot", "head"}
     /\ queue_end = queue_head)

\* The values from the head up to the end.
Slot(h, i) == (h + i - 1) % N
Contents == [i \in 1..smem_queue_size |-> queue[Slot(queue_head, i)]]

F == INSTANCE SmemFifo WITH Capacity <- N - 1, fifo <- Contents

\* The ring without a lock behaves as a queue of N - 1 places: nothing lost,
\* repeated or out of order, refused only when full.
IsFifo == F!FifoSpec

\* A full queue gets room again.
FullMakesRoom == queue_full ~> ~queue_full
=============================================================================
