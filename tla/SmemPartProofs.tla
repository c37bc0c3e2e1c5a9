--------------------------- MODULE SmemPartProofs ---------------------------
(***************************************************************************)
(* Proofs about the two parts of smem that need no counting: the ring of   *)
(* the client library (SmemQueue) and the server's lists of subscribers    *)
(* (SmemPubSub).                                                           *)
(***************************************************************************)
EXTENDS SmemQueue, SmemPubSub, TLAPS

-----------------------------------------------------------------------------
(***************************************************************************)
(* SmemQueue for a ring of any length: the ring without a lock implements  *)
(* the queue of SmemFifo.                                                  *)
(***************************************************************************)

\* The inductive invariant: while a push is under way there is room, and its
\* value is in its slot before the end moves; while a pop is under way the
\* ring is not empty, and the value read is still at the head.
RingInv ==
  /\ QueueTypeOK
  /\ push.at \in {"slot", "end"} => ~queue_full /\ push.val \in Values
  /\ push.at = "end" => queue[queue_end] = push.val
  /\ pop.at \in {"slot", "head"} => ~queue_empty
  /\ pop.at = "head" => pop.val = queue[queue_head]
-----------------------------------------------------------------------------
\* Indices of the ring are less than 2N before they are wrapped.
LEMMA ModN ==
  ASSUME NEW x \in Nat, x < 2 * N
  PROVE  x % N = IF x < N THEN x ELSE x - N
<1>1. N \in Nat /\ N > 1
  BY QueueConstants
<1>2. CASE x < N
  BY <1>1, <1>2
<1>3. CASE x >= N
  <2>1. x % N \in 0..(N - 1) /\ x = N * (x \div N) + (x % N) /\ x \div N \in Nat
    BY <1>1
  <2>2. x \div N = 1
    BY <1>1, <1>3, <2>1
  <2> DEFINE r == x % N
             q == x \div N
  <2>3. r \in Nat /\ x = N * q + r /\ q = 1
    BY <2>1, <2>2
  <2> HIDE DEF r, q
  <2>4. x = N + r
    BY <1>1, <2>3
  <2>5. r = x - N
    BY <1>1, <2>3, <2>4
  <2>6. ~(x < N)
    BY <1>1, <1>3
  <2> QED BY <2>5, <2>6, Zenon DEF r
<1> QED BY <1>1, <1>2, <1>3

\* The slot after a slot.
LEMMA AfterSlot ==
  ASSUME NEW i \in Slots
  PROVE  After(i) = IF i = N - 1 THEN 0 ELSE i + 1
<1>1. N \in Nat /\ N > 1 /\ i \in Nat /\ i < N
  BY QueueConstants DEF Slots
<1>2. i + 1 \in Nat /\ i + 1 < 2 * N
  BY <1>1
<1>3. After(i) = IF i + 1 < N THEN i + 1 ELSE (i + 1) - N
  BY <1>2, ModN, SMTT(40) DEF After
<1> HIDE DEF After
<1> QED BY <1>1, <1>3

\* The type invariant is inductive, as are the facts about the two threads:
\* a push only makes the ring fuller and a pop only makes it emptier.
LEMMA RingStep ==
  ASSUME RingInv, [QueueNext]_qvars
  PROVE  RingInv'
<1> USE DEF RingInv, QueueTypeOK, queue_full, queue_empty, Slots
<1>0. N \in Nat /\ N > 1
  BY QueueConstants
<1>1. \A i \in Slots : After(i) = IF i = N - 1 THEN 0 ELSE i + 1
  BY AfterSlot
<1>2. ASSUME NEW v \in Values, PushBegin(v) PROVE RingInv'
  <2>1. CASE queue_full
    BY <1>2, <2>1, ZenonT(40) DEF PushBegin
  <2>2. CASE ~queue_full
    BY <1>2, <2>2 DEF PushBegin
  <2> QED BY <2>1, <2>2
<1>3. CASE PushStores
  <2>1. CASE push.at = "slot"
    BY <1>0, <1>1, <1>3, <2>1 DEF PushStores, StoreSlot
  <2>2. CASE push.at = "end"
    BY <1>0, <1>1, <1>3, <2>2 DEF PushStores, StoreEnd
  <2> QED BY <1>3, <2>1, <2>2 DEF PushStores
<1>4. CASE PopBegin
  BY <1>4 DEF PopBegin
<1>5. CASE PopLoad
  BY <1>5 DEF PopLoad
<1>6. CASE PopStore
  BY <1>0, <1>1, <1>6 DEF PopStore
<1>7. CASE UNCHANGED qvars
  BY <1>7 DEF qvars
<1> QED BY <1>2, <1>3, <1>4, <1>5, <1>6, <1>7 DEF QueueNext, PopNext

\* The invariant holds throughout.
LEMMA RingInvariant == QueueSpec => []RingInv
<1>1. QueueInit => RingInv
  BY QueueConstants DEF QueueInit, RingInv, QueueTypeOK, Slots
<1> QED BY <1>1, RingStep, PTL DEF QueueSpec
-----------------------------------------------------------------------------
\* The two threads never use the same slot.
THEOREM SlotsNotShared == QueueSpec => []NoSlotShared
<1>1. RingInv => NoSlotShared
  BY DEF RingInv, NoSlotShared, queue_empty
<1> QED BY <1>1, RingInvariant, PTL

\* The ring is well typed; its indices never leave it.
THEOREM QueueTypes == QueueSpec => []QueueTypeOK
<1>1. RingInv => QueueTypeOK
  BY DEF RingInv
<1> QED BY <1>1, RingInvariant, PTL
-----------------------------------------------------------------------------
\* smem_queue_size without the remainder.
LEMMA DistanceIs ==
  ASSUME NEW h \in Slots, NEW e \in Slots
  PROVE  Distance(h, e) = IF h <= e THEN e - h ELSE e - h + N
<1>1. N \in Nat /\ N > 1 /\ h \in Nat /\ h < N /\ e \in Nat /\ e < N
  BY QueueConstants DEF Slots
<1>2. e - h + N \in Nat /\ e - h + N < 2 * N
  BY <1>1
<1>3. Distance(h, e) = IF e - h + N < N THEN e - h + N ELSE (e - h + N) - N
  BY <1>2, ModN DEF Distance
<1> QED BY <1>1, <1>3

\* The place of the i-th element without the remainder.
LEMMA SlotIs ==
  ASSUME NEW h \in Slots, NEW i \in 1..N
  PROVE  Slot(h, i) = IF h + i - 1 < N THEN h + i - 1 ELSE h + i - 1 - N
<1>1. N \in Nat /\ N > 1 /\ h \in Nat /\ h < N /\ i \in Nat /\ i >= 1 /\ i <= N
  BY QueueConstants DEF Slots
<1> DEFINE x == h + i - 1
<1>2. x \in Nat /\ x < 2 * N
  BY <1>1
<1>3. Slot(h, i) = x % N
  BY DEF Slot
<1> HIDE DEF x
<1>4. x % N = IF x < N THEN x ELSE x - N
  BY <1>2, ModN
<1>5. Slot(h, i) = IF x < N THEN x ELSE x - N
  BY <1>3, <1>4, Zenon
<1> QED BY <1>1, <1>5 DEF x

\* The contents as a sequence.
LEMMA ContentsIs ==
  ASSUME QueueTypeOK
  PROVE  /\ smem_queue_size \in 0..(N - 1)
         /\ Contents \in Seq(Values \cup {NoValue})
         /\ Len(Contents) = smem_queue_size
         /\ \A i \in 1..smem_queue_size :
              /\ Contents[i] = queue[Slot(queue_head, i)]
              /\ Slot(queue_head, i) \in Slots
<1>1. smem_queue_size \in 0..(N - 1)
  <2>1. /\ queue_head \in Slots /\ queue_end \in Slots
        /\ N \in Nat /\ N > 1
    BY QueueConstants DEF QueueTypeOK
  <2>2. smem_queue_size = IF queue_head <= queue_end THEN queue_end - queue_head
                          ELSE queue_end - queue_head + N
    BY <2>1, DistanceIs DEF smem_queue_size
  <2> QED BY <2>1, <2>2 DEF Slots
<1>2. \A i \in 1..smem_queue_size : Slot(queue_head, i) \in Slots
  <2> SUFFICES ASSUME NEW i \in 1..smem_queue_size
               PROVE  Slot(queue_head, i) \in Slots
    OBVIOUS
  <2>1. N \in Nat /\ N > 1 /\ queue_head \in Slots /\ i \in 1..N
    BY <1>1, QueueConstants DEF QueueTypeOK
  <2>2. Slot(queue_head, i) = IF queue_head + i - 1 < N THEN queue_head + i - 1
                              ELSE queue_head + i - 1 - N
    BY <2>1, SlotIs
  <2> QED BY <2>1, <2>2 DEF Slots
<1>3. \A i \in 1..smem_queue_size :
        queue[Slot(queue_head, i)] \in Values \cup {NoValue}
  BY <1>2 DEF QueueTypeOK
<1> QED BY <1>1, <1>2, <1>3 DEF Contents

\* A store outside of the contents does not show.
LEMMA StoreSlotHidden ==
  ASSUME RingInv, push.at = "slot", PushStores
  PROVE  Contents' = Contents
<1>1. /\ queue' = [queue EXCEPT ![queue_end] = push.val]
      /\ queue_end' = queue_end /\ queue_head' = queue_head
  BY DEF PushStores, StoreSlot
<1>2. smem_queue_size' = smem_queue_size
  BY <1>1 DEF smem_queue_size
<1>3. ASSUME NEW i \in 1..smem_queue_size
      PROVE  queue'[Slot(queue_head, i)] = queue[Slot(queue_head, i)]
  <2>1. /\ N \in Nat /\ N > 1 /\ queue_head \in Slots /\ queue_end \in Slots
        /\ smem_queue_size \in 0..(N - 1) /\ Slot(queue_head, i) \in Slots
    BY ContentsIs, QueueConstants DEF RingInv, QueueTypeOK
  <2>2. i \in 1..N
    BY <2>1
  <2>3. Slot(queue_head, i) = IF queue_head + i - 1 < N THEN queue_head + i - 1
                              ELSE queue_head + i - 1 - N
    BY <2>1, <2>2, SlotIs
  <2>4. smem_queue_size = IF queue_head <= queue_end THEN queue_end - queue_head
                          ELSE queue_end - queue_head + N
    BY <2>1, DistanceIs DEF smem_queue_size
  <2>5. Slot(queue_head, i) # queue_end
    BY <2>1, <2>2, <2>3, <2>4 DEF Slots
  <2> QED BY <1>1, <2>1, <2>5 DEF RingInv, QueueTypeOK
<1> QED BY <1>1, <1>2, <1>3 DEF Contents

\* Moving the end adds the value that was stored.
LEMMA StoreEndAppends ==
  ASSUME RingInv, RingInv', push.at = "end", PushStores
  PROVE  Contents' = Append(Contents, push.val) /\ Len(Contents) < N - 1
<1> DEFINE size == smem_queue_size
<1>1. /\ queue' = queue /\ queue_head' = queue_head
      /\ queue_end' = After(queue_end)
  BY DEF PushStores, StoreEnd
<1>2. /\ N \in Nat /\ N > 1 /\ queue_head \in Slots /\ queue_end \in Slots
      /\ size \in 0..(N - 1) /\ Len(Contents) = size
      /\ Contents \in Seq(Values \cup {NoValue})
      /\ \A i \in 1..size : Contents[i] = queue[Slot(queue_head, i)]
  BY ContentsIs, QueueConstants DEF RingInv, QueueTypeOK
<1>3. /\ After(queue_end) # queue_head
      /\ After(queue_end) = IF queue_end = N - 1 THEN 0 ELSE queue_end + 1
      /\ After(queue_end) \in Slots
  BY <1>1, <1>2, AfterSlot DEF RingInv, QueueTypeOK, queue_full
<1>4. size = IF queue_head <= queue_end THEN queue_end - queue_head
             ELSE queue_end - queue_head + N
  BY <1>2, DistanceIs DEF smem_queue_size
<1>5. size' = IF queue_head <= After(queue_end) THEN After(queue_end) - queue_head
              ELSE After(queue_end) - queue_head + N
  BY <1>1, <1>2, <1>3, DistanceIs DEF smem_queue_size
<1> HIDE DEF size
<1>6. size' = size + 1 /\ size < N - 1
  BY <1>2, <1>3, <1>4, <1>5 DEF Slots
<1>7. Slot(queue_head, size + 1) = queue_end
  <2>1. size + 1 \in 1..N
    BY <1>2
  <2>2. Slot(queue_head, size + 1) =
          IF queue_head + (size + 1) - 1 < N THEN queue_head + (size + 1) - 1
          ELSE queue_head + (size + 1) - 1 - N
    BY <1>2, <2>1, SlotIs
  <2> QED BY <1>2, <1>4, <2>2 DEF Slots
<1>8. Contents' = [i \in 1..(size + 1) |-> queue[Slot(queue_head, i)]]
  BY <1>1, <1>6 DEF Contents, size
<1>9. queue[queue_end] = push.val /\ push.val \in Values \cup {NoValue}
  BY DEF RingInv, QueueTypeOK
<1>10. Append(Contents, push.val) =
         [i \in 1..(size + 1) |-> IF i = size + 1 THEN push.val ELSE Contents[i]]
  <2>1. /\ Append(Contents, push.val) \in Seq(Values \cup {NoValue})
        /\ Len(Append(Contents, push.val)) = size + 1
        /\ \A i \in 1..size : Append(Contents, push.val)[i] = Contents[i]
        /\ Append(Contents, push.val)[size + 1] = push.val
    BY <1>2, <1>9
  <2> QED BY <1>2, <2>1
<1>11. \A i \in 1..(size + 1) : queue[Slot(queue_head, i)] =
          IF i = size + 1 THEN push.val ELSE Contents[i]
  BY <1>2, <1>7, <1>9
<1> QED BY <1>2, <1>6, <1>8, <1>10, <1>11, SMTT(30)

\* Moving the head takes the value that was read.
LEMMA StoreHeadTakes ==
  ASSUME RingInv, RingInv', PopStore
  PROVE  Contents # << >> /\ got' = Head(Contents) /\ Contents' = Tail(Contents)
<1> DEFINE size == smem_queue_size
<1>1. /\ queue' = queue /\ queue_end' = queue_end
      /\ queue_head' = After(queue_head) /\ got' = queue[queue_head]
  BY DEF PopStore, RingInv
<1>2. /\ N \in Nat /\ N > 1 /\ queue_head \in Slots /\ queue_end \in Slots
      /\ size \in 0..(N - 1) /\ Len(Contents) = size
      /\ Contents \in Seq(Values \cup {NoValue})
      /\ \A i \in 1..size : Contents[i] = queue[Slot(queue_head, i)]
  BY ContentsIs, QueueConstants DEF RingInv, QueueTypeOK
<1>3. /\ queue_end # queue_head
      /\ After(queue_head) = IF queue_head = N - 1 THEN 0 ELSE queue_head + 1
      /\ After(queue_head) \in Slots
  BY <1>1, <1>2, AfterSlot DEF RingInv, QueueTypeOK, queue_empty, PopStore
<1>4. size = IF queue_head <= queue_end THEN queue_end - queue_head
             ELSE queue_end - queue_head + N
  BY <1>2, DistanceIs DEF smem_queue_size
<1>5. size' = IF After(queue_head) <= queue_end THEN queue_end - After(queue_head)
              ELSE queue_end - After(queue_head) + N
  BY <1>1, <1>2, <1>3, DistanceIs DEF smem_queue_size
<1> HIDE DEF size
<1>6. size' = size - 1 /\ size > 0
  BY <1>2, <1>3, <1>4, <1>5 DEF Slots
<1>7. Slot(queue_head, 1) = queue_head
  <2>1. 1 \in 1..N
    BY <1>2
  <2>2. Slot(queue_head, 1) = IF queue_head + 1 - 1 < N THEN queue_head + 1 - 1
                              ELSE queue_head + 1 - 1 - N
    BY <1>2, <2>1, SlotIs
  <2> QED BY <1>2, <2>2 DEF Slots
<1>8. ASSUME NEW i \in 1..(size - 1)
      PROVE  Slot(After(queue_head), i) = Slot(queue_head, i + 1)
  <2>1. i \in 1..N /\ i + 1 \in 1..N
    BY <1>2
  <2>2. Slot(queue_head, i + 1) =
          IF queue_head + (i + 1) - 1 < N THEN queue_head + (i + 1) - 1
          ELSE queue_head + (i + 1) - 1 - N
    BY <1>2, <2>1, SlotIs
  <2>3. Slot(After(queue_head), i) =
          IF After(queue_head) + i - 1 < N THEN After(queue_head) + i - 1
          ELSE After(queue_head) + i - 1 - N
    BY <1>3, <2>1, SlotIs
  <2> QED BY <1>2, <1>3, <2>1, <2>2, <2>3 DEF Slots
<1>9. Contents' = [i \in 1..(size - 1) |-> queue[Slot(After(queue_head), i)]]
  BY <1>1, <1>6 DEF Contents, size
<1>10. Contents # << >> /\ Head(Contents) = Contents[1]
  BY <1>2, <1>6
<1>11. Tail(Contents) = [i \in 1..(size - 1) |-> Contents[i + 1]]
  <2>1. /\ Tail(Contents) \in Seq(Values \cup {NoValue})
        /\ Len(Tail(Contents)) = size - 1
        /\ \A i \in 1..(size - 1) : Tail(Contents)[i] = Contents[i + 1]
    BY <1>2, <1>10
  <2> DEFINE t == Tail(Contents)
  <2>2. t \in Seq(Values \cup {NoValue}) /\ Len(t) = size - 1
    BY <2>1
  <2> HIDE DEF t
  <2>3. t = [i \in 1..(size - 1) |-> t[i]]
    BY <2>2
  <2> QED BY <2>1, <2>3 DEF t
<1>12. \A i \in 1..(size - 1) :
         queue[Slot(After(queue_head), i)] = Contents[i + 1]
  BY <1>2, <1>8
<1>13. Contents' = Tail(Contents)
  BY <1>9, <1>11, <1>12
<1>14. got' = Head(Contents)
  BY <1>1, <1>2, <1>6, <1>7, <1>10
<1> QED BY <1>10, <1>13, <1>14

\* A ring that is full holds N - 1 values, an empty one none.
LEMMA FullAndEmpty ==
  ASSUME RingInv
  PROVE  /\ queue_full => Len(Contents) = N - 1
         /\ queue_empty => Contents = << >>
<1>1. /\ N \in Nat /\ N > 1 /\ queue_head \in Slots /\ queue_end \in Slots
      /\ Len(Contents) = smem_queue_size
      /\ Contents \in Seq(Values \cup {NoValue})
  BY ContentsIs, QueueConstants DEF RingInv, QueueTypeOK
<1>2. smem_queue_size = IF queue_head <= queue_end THEN queue_end - queue_head
                        ELSE queue_end - queue_head + N
  BY <1>1, DistanceIs DEF smem_queue_size
<1>3. After(queue_end) = IF queue_end = N - 1 THEN 0 ELSE queue_end + 1
  BY <1>1, AfterSlot
<1>4. queue_full => Len(Contents) = N - 1
  BY <1>1, <1>2, <1>3 DEF queue_full, Slots
<1>5. queue_empty => Len(Contents) = 0
  BY <1>1, <1>2 DEF queue_empty, Slots
<1> QED BY <1>1, <1>4, <1>5

\* Every step of the ring is a step of the abstract queue or leaves it alone.
LEMMA FifoStep ==
  ASSUME RingInv, RingInv', [QueueNext]_qvars
  PROVE  [F!FifoNext]_<<Contents, pushed, got>>
<1>1. ASSUME NEW v \in Values, PushBegin(v)
      PROVE  [F!FifoNext]_<<Contents, pushed, got>>
  <2>1. Contents' = Contents /\ got' = got
    BY <1>1 DEF PushBegin, Contents, smem_queue_size
  <2>2. CASE queue_full
    <3>1. pushed' = FALSE /\ ~(Len(Contents) < N - 1)
      BY <1>1, <2>2, FullAndEmpty, QueueConstants DEF PushBegin
    <3>2. F!Push(v)
      BY <2>1, <3>1 DEF F!Push
    <3> QED BY <3>2 DEF F!FifoNext
  <2>3. CASE ~queue_full
    BY <1>1, <2>1, <2>3 DEF PushBegin
  <2> QED BY <2>2, <2>3
<1>2. CASE PushStores
  <2>1. CASE push.at = "slot"
    <3>1. Contents' = Contents
      BY <1>2, <2>1, StoreSlotHidden
    <3>2. pushed' = pushed /\ got' = got
      BY <1>2, <2>1 DEF PushStores
    <3> QED BY <3>1, <3>2
  <2>2. CASE push.at = "end"
    <3>1. Contents' = Append(Contents, push.val) /\ Len(Contents) < N - 1
      BY <1>2, <2>2, StoreEndAppends
    <3>2. pushed' = TRUE /\ got' = got /\ push.val \in Values
      BY <1>2, <2>2 DEF PushStores, RingInv
    <3>3. F!Push(push.val)
      BY <3>1, <3>2 DEF F!Push
    <3> QED BY <3>2, <3>3, ZenonT(40) DEF F!FifoNext
  <2> QED BY <1>2, <2>1, <2>2 DEF PushStores
<1>3. CASE PopBegin
  <2>1. Contents' = Contents /\ pushed' = pushed
    BY <1>3 DEF PopBegin, Contents, smem_queue_size
  <2>2. CASE queue_empty
    <3>1. Contents = << >> /\ got' = NoValue
      BY <1>3, <2>2, FullAndEmpty DEF PopBegin
    <3>2. F!Pop
      BY <2>1, <3>1 DEF F!Pop
    <3> QED BY <3>2 DEF F!FifoNext
  <2>3. CASE ~queue_empty
    BY <1>3, <2>1, <2>3 DEF PopBegin
  <2> QED BY <2>2, <2>3
<1>4. CASE PopLoad
  BY <1>4 DEF PopLoad, Contents, smem_queue_size
<1>5. CASE PopStore
  <2>1. Contents # << >> /\ got' = Head(Contents) /\ Contents' = Tail(Contents)
    BY <1>5, StoreHeadTakes
  <2>2. pushed' = pushed
    BY <1>5 DEF PopStore
  <2>3. F!Pop
    BY <2>1, <2>2 DEF F!Pop
  <2> QED BY <2>3 DEF F!FifoNext
<1>6. CASE UNCHANGED qvars
  BY <1>6 DEF qvars, Contents, smem_queue_size
<1> QED BY <1>1, <1>2, <1>3, <1>4, <1>5, <1>6 DEF QueueNext, PopNext

\* The ring of smem_client.c, of any length and without a lock, implements
\* the bounded queue: one thread in smem_queue_push and one in smem_queue_pop
\* never lose, repeat or reorder an id, and a push fails only on a full ring.
THEOREM RingIsFifo == QueueSpec => IsFifo
<1>1. QueueInit => F!FifoInit
  <2> SUFFICES ASSUME QueueInit PROVE F!FifoInit
    OBVIOUS
  <2>1. RingInv
    BY QueueConstants DEF QueueInit, RingInv, QueueTypeOK, Slots
  <2>2. Contents = << >>
    BY <2>1, FullAndEmpty DEF QueueInit, queue_empty
  <2> QED BY <2>2 DEF QueueInit, F!FifoInit
<1>2. RingInv /\ RingInv' /\ [QueueNext]_qvars
      => [F!FifoNext]_<<Contents, pushed, got>>
  BY FifoStep
<1> QED BY <1>1, <1>2, RingInvariant, PTL DEF QueueSpec, IsFifo, F!FifoSpec

-----------------------------------------------------------------------------
(***************************************************************************)
(* SmemPubSub, for any sets of clients, channels and names: under the      *)
(* discipline of the client library (DeviceSpec) the client's set of       *)
(* channels and the server's lists agree, no assertion of                  *)
(* smempubsubUnsubscribeChannel fails, and no list holds a freed client.   *)
(***************************************************************************)

\* The inductive invariant.  TablesAgree is not inductive: SMEMSWITCH drops
\* every channel it stops at but moves one node, so it needs one channel per
\* client and one client per name; and a list without a key would be lost.
DeviceInv ==
  /\ PubSubTypeOK
  /\ TablesAgree
  /\ ~aborted
  /\ \A c \in Clients : channels[c] # {} => c \in connected \cap flagged
  /\ \A c \in Clients : \A ch1, ch2 \in channels[c] : ch1 = ch2
  /\ \A c, d \in connected : name[c] = name[d] /\ name[c] # NoName => c = d
  /\ \A ch \in Channels : lists[ch] # << >> => ch \in entries
-----------------------------------------------------------------------------
\* What is in the concatenation of two lists.
LEMMA Concatenated ==
  ASSUME NEW S, NEW a \in Seq(S), NEW b \in Seq(S)
  PROVE  /\ a \o b \in Seq(S) /\ Len(a \o b) = Len(a) + Len(b)
         /\ \A j \in 1..(Len(a) + Len(b)) :
              (a \o b)[j] = IF j <= Len(a) THEN a[j] ELSE b[j - Len(a)]
<1>1. a \o b \in Seq(S) /\ Len(a \o b) = Len(a) + Len(b)
  OBVIOUS
<1>2. ASSUME NEW j \in 1..(Len(a) + Len(b))
      PROVE  (a \o b)[j] = IF j <= Len(a) THEN a[j] ELSE b[j - Len(a)]
  <2>1. CASE j <= Len(a)
    BY <2>1
  <2>2. CASE j > Len(a)
    BY <2>2
  <2> QED
    BY <2>1, <2>2
<1> QED
  BY <1>1, <1>2

\* Taking an element out of a list without repetitions takes out that element
\* and no other.
LEMMA RemoveAtProperties ==
  ASSUME NEW S, NEW s \in Seq(S), NEW i \in 1..Len(s), IsInjective(s)
  PROVE  /\ RemoveAt(s, i) \in Seq(S)
         /\ IsInjective(RemoveAt(s, i))
         /\ \A x : Contains(RemoveAt(s, i), x) <=> Contains(s, x) /\ x # s[i]
<1> DEFINE a == SubSeq(s, 1, i - 1)
           b == SubSeq(s, i + 1, Len(s))
<1>1. /\ a \in Seq(S) /\ Len(a) = i - 1
      /\ \A j \in 1..(i - 1) : a[j] = s[j]
  OBVIOUS
<1>2. /\ b \in Seq(S) /\ Len(b) = Len(s) - i
      /\ \A j \in 1..(Len(s) - i) : b[j] = s[j + i]
  OBVIOUS
<1> HIDE DEF a, b
<1> DEFINE t == a \o b
<1>3. /\ t \in Seq(S) /\ Len(t) = Len(s) - 1
      /\ \A j \in 1..(Len(s) - 1) : t[j] = IF j < i THEN s[j] ELSE s[j + 1]
  <2>1. /\ t \in Seq(S) /\ Len(t) = Len(a) + Len(b)
        /\ \A j \in 1..(Len(a) + Len(b)) :
             t[j] = IF j <= Len(a) THEN a[j] ELSE b[j - Len(a)]
    BY <1>1, <1>2, Concatenated, Zenon
  <2> HIDE DEF t
  <2>2. Len(a) + Len(b) = Len(s) - 1
    BY <1>1, <1>2
  <2>3. ASSUME NEW j \in 1..(Len(s) - 1)
        PROVE  t[j] = IF j < i THEN s[j] ELSE s[j + 1]
    <3>1. CASE j < i
      BY <1>1, <2>1, <2>2, <3>1
    <3>2. CASE j >= i
      <4>1. j - Len(a) \in 1..(Len(s) - i) /\ j - Len(a) + i = j + 1
        BY <1>1, <3>2
      <4>2. t[j] = b[j - Len(a)]
        BY <1>1, <2>1, <2>2, <3>2
      <4>3. b[j - Len(a)] = s[j - Len(a) + i]
        BY <1>2, <4>1, Zenon
      <4> QED BY <3>2, <4>1, <4>2, <4>3
    <3> QED BY <3>1, <3>2
  <2> QED BY <2>1, <2>2, <2>3
<1>4. RemoveAt(s, i) = t
  BY DEF RemoveAt, a, b
<1> HIDE DEF t
<1>5. DOMAIN t = 1..(Len(s) - 1) /\ DOMAIN s = 1..Len(s)
  BY <1>3
<1>6. IsInjective(t)
  <2> SUFFICES ASSUME NEW j \in DOMAIN t, NEW k \in DOMAIN t, t[j] = t[k]
               PROVE  j = k
    BY DEF IsInjective
  <2> DEFINE f(m) == IF m < i THEN m ELSE m + 1
  <2>1. f(j) \in DOMAIN s /\ f(k) \in DOMAIN s /\ s[f(j)] = s[f(k)]
    BY <1>3, <1>5
  <2>2. f(j) = f(k)
    BY <2>1 DEF IsInjective
  <2> QED BY <1>5, <2>2
<1>7. ASSUME NEW x, Contains(t, x)
      PROVE  Contains(s, x) /\ x # s[i]
  BY <1>3, <1>5, <1>7 DEF IsInjective, Contains
<1>8. ASSUME NEW x, Contains(s, x), x # s[i]
      PROVE  Contains(t, x)
  <2>1. PICK j \in 1..Len(s) : s[j] = x
    BY <1>8 DEF Contains
  <2>2. CASE j < i
    BY <1>3, <2>1, <2>2 DEF Contains
  <2>3. CASE j > i
    <3>1. j - 1 \in 1..Len(t) /\ t[j - 1] = x
      BY <1>3, <2>1, <2>3
    <3> QED BY <3>1 DEF Contains
  <2> QED BY <1>8, <2>1, <2>2, <2>3
<1> QED BY <1>3, <1>4, <1>6, <1>7, <1>8

\* Adding a new element at either end.
LEMMA AddProperties ==
  ASSUME NEW S, NEW s \in Seq(S), NEW e \in S, IsInjective(s), ~Contains(s, e)
  PROVE  /\ Append(s, e) \in Seq(S) /\ Cons(e, s) \in Seq(S)
         /\ IsInjective(Append(s, e)) /\ IsInjective(Cons(e, s))
         /\ \A x : Contains(Append(s, e), x) <=> Contains(s, x) \/ x = e
         /\ \A x : Contains(Cons(e, s), x) <=> Contains(s, x) \/ x = e
<1> DEFINE t == Cons(e, s)
<1>1. /\ t \in Seq(S) /\ Len(t) = Len(s) + 1
      /\ \A j \in 1..(Len(s) + 1) : t[j] = IF j = 1 THEN e ELSE s[j - 1]
  BY DEF Cons
<1>2. DOMAIN t = 1..(Len(s) + 1) /\ DOMAIN s = 1..Len(s)
  BY <1>1
<1> HIDE DEF t
<1>3. IsInjective(t)
  <2> SUFFICES ASSUME NEW j \in DOMAIN t, NEW k \in DOMAIN t, t[j] = t[k]
               PROVE  j = k
    BY DEF IsInjective
  <2>1. \A m \in DOMAIN t \ {1} : m - 1 \in DOMAIN s /\ t[m] = s[m - 1]
    BY <1>1, <1>2
  <2>2. t[1] = e /\ \A m \in DOMAIN s : s[m] # e
    BY <1>1, <1>2 DEF Contains
  <2>3. CASE j = 1 \/ k = 1
    BY <2>1, <2>2, <2>3
  <2>4. CASE j # 1 /\ k # 1
    <3>1. j - 1 = k - 1
      BY <2>1, <2>4 DEF IsInjective
    <3> QED BY <1>2, <3>1
  <2> QED BY <2>3, <2>4
<1>4. ASSUME NEW x
      PROVE  Contains(t, x) <=> Contains(s, x) \/ x = e
  <2>1. ASSUME Contains(s, x) PROVE Contains(t, x)
    <3>1. PICK j \in 1..Len(s) : s[j] = x
      BY <2>1 DEF Contains
    <3>2. j + 1 \in 1..Len(t) /\ t[j + 1] = x
      BY <1>1, <3>1
    <3> QED BY <3>2 DEF Contains
  <2>2. 1 \in 1..Len(t) /\ t[1] = e
    BY <1>1
  <2>3. ASSUME Contains(t, x), x # e PROVE Contains(s, x)
    <3>1. PICK j \in 1..Len(t) : t[j] = x
      BY <2>3 DEF Contains
    <3>2. j - 1 \in 1..Len(s) /\ s[j - 1] = x
      BY <1>1, <2>3, <3>1
    <3> QED BY <3>2 DEF Contains
  <2> QED BY <2>1, <2>2, <2>3 DEF Contains
<1> DEFINE u == Append(s, e)
<1>5. /\ u \in Seq(S) /\ Len(u) = Len(s) + 1
      /\ \A j \in 1..(Len(s) + 1) : u[j] = IF j = Len(s) + 1 THEN e ELSE s[j]
  OBVIOUS
<1>6. DOMAIN u = 1..(Len(s) + 1)
  BY <1>5
<1> HIDE DEF u
<1>7. IsInjective(u)
  BY <1>2, <1>5, <1>6 DEF IsInjective, Contains
<1>8. ASSUME NEW x
      PROVE  Contains(u, x) <=> Contains(s, x) \/ x = e
  <2>1. Len(u) \in 1..Len(u) /\ u[Len(u)] = e
    BY <1>5
  <2> QED BY <1>5, <2>1 DEF Contains
<1> QED BY <1>1, <1>3, <1>4, <1>5, <1>7, <1>8 DEF t, u
-----------------------------------------------------------------------------
\* The shape of a SMEMSWITCH that finds its client: node i of the list of src,
\* the client c, goes to the head of the list of pub.
MovedTo(c, src, i, pub) ==
  /\ c \in connected /\ channels[c] = {src}
  /\ i \in 1..Len(lists[src]) /\ lists[src][i] = c
  /\ channels' = [channels EXCEPT ![c] = {pub}]
  /\ entries' = entries \cup {pub}
  /\ LET cut == [lists EXCEPT ![src] = RemoveAt(lists[src], i)]
     IN  lists' = [cut EXCEPT ![pub] = Cons(c, cut[pub])]

\* Every entry of a list is a connected client that has just that channel.
LEMMA EntriesAreSubscribed ==
  ASSUME DeviceInv, NEW ch \in Channels, NEW i \in DOMAIN lists[ch]
  PROVE  /\ lists[ch] \in Seq(Clients) /\ i \in 1..Len(lists[ch])
         /\ lists[ch][i] \in connected
         /\ channels[lists[ch][i]] = {ch}
         /\ ch \in entries
<1> DEFINE c == lists[ch][i]
<1>1. lists[ch] \in Seq(Clients) /\ i \in 1..Len(lists[ch]) /\ c \in Clients
  BY DEF DeviceInv, PubSubTypeOK
<1>2. Contains(lists[ch], c)
  BY <1>1 DEF Contains
<1>3. ch \in channels[c]
  BY <1>1, <1>2 DEF DeviceInv, TablesAgree
<1>4. lists[ch] # << >>
  BY <1>1
<1> QED BY <1>1, <1>3, <1>4 DEF DeviceInv

\* One device: under the invariant SMEMSWITCH changes nothing or moves one
\* client, whatever order the hash table is walked in.
LEMMA SwitchMovesOne ==
  ASSUME DeviceInv, NEW pub \in Channels, NEW n \in Names,
         smemswitchCommand(pub, n)
  PROVE  \/ UNCHANGED <<channels, entries, lists>> /\ Seen(n) = {}
         \/ \E c \in Clients, src \in Channels : \E i \in Nat :
              MovedTo(c, src, i, pub) /\ name[c] = n
<1> SUFFICES ASSUME ~(Seen(n) = {} /\ UNCHANGED <<channels, entries, lists>>)
             PROVE  \E c \in Clients, src \in Channels : \E i \in Nat :
                      MovedTo(c, src, i, pub) /\ name[c] = n
  OBVIOUS
<1>1. \A ch \in Channels : HitAt(ch, n) = SeenAt(ch, n)
  BY EntriesAreSubscribed DEF HitAt, SeenAt
<1>2. Hit(n) = Seen(n) /\ Seen(n) \subseteq Channels
  BY <1>1 DEF Hit, Seen, DeviceInv, PubSubTypeOK
<1>3. PICK src \in Seen(n) :
        LET c == Found(src, n)
            dict == Dropped(n)
        IN  IF pub \in dict[c]
            THEN channels' = dict /\ UNCHANGED <<entries, lists>>
            ELSE /\ channels' = [dict EXCEPT ![c] = @ \cup {pub}]
                 /\ entries' = entries \cup {pub}
                 /\ lists' = smemlistMoveNode(src, pub, n)
  BY <1>2 DEF smemswitchCommand
<1>4. src \in Channels
  BY <1>2
<1>5. PICK i \in DOMAIN lists[src] : name[lists[src][i]] = n
  BY <1>3 DEF Seen, SeenAt
<1> DEFINE c == lists[src][i]
<1>6. /\ i \in 1..Len(lists[src]) /\ c \in connected /\ c \in Clients
      /\ channels[c] = {src} /\ name[c] = n
  BY <1>4, <1>5, EntriesAreSubscribed, SMTT(40) DEF DeviceInv, PubSubTypeOK
<1>7. ASSUME NEW ch \in Channels, NEW j \in SeenAt(ch, n)
      PROVE  ch = src /\ j = i
  <2>1. j \in DOMAIN lists[ch] /\ name[lists[ch][j]] = n
    BY <1>7, ZenonT(40) DEF SeenAt
  <2>2. lists[ch][j] \in connected /\ channels[lists[ch][j]] = {ch}
    BY <2>1, EntriesAreSubscribed
  <2>3. lists[ch][j] = c
    BY <1>6, <2>1, <2>2, NoNameIsNone DEF DeviceInv
  <2>4. ch = src
    BY <1>6, <2>2, <2>3, SMTT(40)
  <2>5. IsInjective(lists[src])
    BY <1>4, SMTT(40) DEF DeviceInv, TablesAgree
  <2> QED BY <2>1, <2>3, <2>4, <2>5, ZenonT(40) DEF IsInjective
<1>8. SeenAt(src, n) = {i} /\ HitAt(src, n) = {i}
  BY <1>1, <1>4, <1>5, <1>7 DEF SeenAt
<1>9. Min(HitAt(src, n)) = i
  BY <1>6, <1>8, SMTT(40) DEF Min
<1>10. Hit(n) = {src}
  BY <1>2, <1>3, <1>7 DEF Seen
<1>11. Found(src, n) = c
  BY <1>9, <1>10 DEF Found
<1>12. Dropped(n) = [channels EXCEPT ![c] = {}]
  <2>1. channels \in [Clients -> SUBSET Channels]
    BY DEF DeviceInv, PubSubTypeOK
  <2>2. \A d \in Clients : channels[d] \ {ch \in Hit(n) : Found(ch, n) = d}
                           = IF d = c THEN {} ELSE channels[d]
    BY <1>6, <1>10, <1>11
  <2> QED BY <1>6, <2>1, <2>2, Zenon DEF Dropped
<1>13. channels \in [Clients -> SUBSET Channels]
  BY DEF DeviceInv, PubSubTypeOK
<1>14. Dropped(n)[c] = {}
  BY <1>6, <1>12, <1>13, SMTT(40)
<1>15. /\ channels' = [channels EXCEPT ![c] = {pub}]
       /\ entries' = entries \cup {pub}
       /\ lists' = smemlistMoveNode(src, pub, n)
  BY <1>3, <1>6, <1>11, <1>12, <1>13, <1>14, SMTT(40)
<1>16. MovedTo(c, src, i, pub)
  BY <1>6, <1>9, <1>15, ZenonT(40) DEF MovedTo, smemlistMoveNode
<1> QED BY <1>4, <1>6, <1>16

\* Moving one client keeps the invariant.
LEMMA MoveKeepsInv ==
  ASSUME DeviceInv, NEW c \in Clients, NEW src \in Channels, NEW i \in Nat,
         NEW pub \in Channels, MovedTo(c, src, i, pub),
         UNCHANGED <<connected, name, flagged, aborted>>
  PROVE  DeviceInv'
<1> DEFINE short == RemoveAt(lists[src], i)
           rest == IF pub = src THEN short ELSE lists[pub]
<1>1. /\ lists \in [Channels -> Seq(Clients)]
      /\ channels \in [Clients -> SUBSET Channels]
      /\ \A ch \in Channels : IsInjective(lists[ch])
      /\ \A ch \in Channels, d \in Clients :
           Contains(lists[ch], d) <=> ch \in channels[d]
  BY DEF DeviceInv, PubSubTypeOK, TablesAgree
<1>2. i \in 1..Len(lists[src]) /\ lists[src][i] = c /\ channels[c] = {src}
  BY DEF MovedTo
<1>3. /\ short \in Seq(Clients) /\ IsInjective(short)
      /\ \A d \in Clients : Contains(short, d) <=> src \in channels[d] /\ d # c
  BY <1>1, <1>2, RemoveAtProperties
<1>4. /\ rest \in Seq(Clients) /\ IsInjective(rest)
      /\ \A d \in Clients : Contains(rest, d) <=> pub \in channels[d] /\ d # c
  BY <1>1, <1>2, <1>3, SMTT(40)
<1>5. /\ Cons(c, rest) \in Seq(Clients) /\ IsInjective(Cons(c, rest))
      /\ \A d \in Clients : Contains(Cons(c, rest), d)
                             <=> pub \in channels[d] \/ d = c
  <2> HIDE DEF rest
  <2> QED BY <1>4, AddProperties
<1>6. lists' = [ch \in Channels |-> IF ch = pub THEN Cons(c, rest)
                                    ELSE IF ch = src THEN short ELSE lists[ch]]
  BY <1>1, Zenon DEF MovedTo
<1> HIDE DEF short, rest
<1>7. channels' = [d \in Clients |-> IF d = c THEN {pub} ELSE channels[d]]
  BY <1>1, Zenon DEF MovedTo
<1>8. PubSubTypeOK'
  BY <1>1, <1>3, <1>5, <1>6, <1>7, SMTT(40) DEF MovedTo, DeviceInv, PubSubTypeOK
<1>9. TablesAgree'
  <2> SUFFICES ASSUME NEW ch \in Channels
               PROVE  /\ IsInjective(lists'[ch])
                      /\ \A d \in Clients :
                           Contains(lists'[ch], d) <=> ch \in channels'[d]
    BY DEF TablesAgree
  <2>1. CASE ch = pub
    BY <1>5, <1>6, <1>7, <2>1
  <2>2. CASE ch # pub /\ ch = src
    BY <1>3, <1>6, <1>7, <2>2
  <2>3. CASE ch # pub /\ ch # src
    BY <1>1, <1>2, <1>6, <1>7, <2>3
  <2> QED BY <2>1, <2>2, <2>3, ZenonT(40)
<1>10. \A ch \in Channels : lists'[ch] # << >> => ch \in entries'
  <2>1. lists[src] # << >>
    BY <1>1, <1>2
  <2> QED BY <1>6, <2>1 DEF MovedTo, DeviceInv
<1>11. c \in connected \cap flagged
  BY <1>2 DEF DeviceInv
<1>12. \A d \in Clients : /\ channels'[d] # {} => d \in connected' \cap flagged'
                          /\ \A ch1, ch2 \in channels'[d] : ch1 = ch2
  BY <1>7, <1>11, SMTT(40) DEF DeviceInv
<1> QED BY <1>8, <1>9, <1>10, <1>12, ZenonT(40) DEF DeviceInv

\* A library's subscription: the client had no channel before.
LEMMA SubscribeKeepsInv ==
  ASSUME DeviceInv, NEW c \in Clients, NEW ch \in Channels,
         smemsubscribeCommand(c, {ch})
  PROVE  DeviceInv' /\ channels[c] = {}
<1>1. channels[c] = {} /\ c \in connected
  BY DEF DeviceInv, smemsubscribeCommand, MayCommand
<1>2. /\ lists \in [Channels -> Seq(Clients)]
      /\ channels \in [Clients -> SUBSET Channels]
      /\ \A k \in Channels : IsInjective(lists[k])
      /\ \A k \in Channels, d \in Clients :
           Contains(lists[k], d) <=> k \in channels[d]
  BY DEF DeviceInv, PubSubTypeOK, TablesAgree
<1>3. /\ lists' = [k \in Channels |-> IF k = ch THEN Append(lists[k], c)
                                                ELSE lists[k]]
      /\ channels' = [d \in Clients |-> IF d = c THEN {ch} ELSE channels[d]]
      /\ entries' = entries \cup {ch} /\ flagged' = flagged \cup {c}
      /\ UNCHANGED <<connected, name, aborted>>
  BY <1>1, <1>2, Zenon DEF smemsubscribeCommand
<1>4. /\ Append(lists[ch], c) \in Seq(Clients)
      /\ IsInjective(Append(lists[ch], c))
      /\ \A d \in Clients : Contains(Append(lists[ch], c), d)
                             <=> ch \in channels[d] \/ d = c
  BY <1>1, <1>2, AddProperties
<1>5. PubSubTypeOK'
  BY <1>2, <1>3, <1>4 DEF DeviceInv, PubSubTypeOK
<1>6. TablesAgree'
  BY <1>1, <1>2, <1>3, <1>4, SMTT(40) DEF TablesAgree
<1> QED BY <1>1, <1>3, <1>5, <1>6 DEF DeviceInv

\* A disconnection: the assertions hold, and the client leaves every list.
LEMMA FreeKeepsInv ==
  ASSUME DeviceInv, NEW c \in Clients, freeClient(c)
  PROVE  DeviceInv' /\ channels' = [channels EXCEPT ![c] = {}]
<1>1. /\ lists \in [Channels -> Seq(Clients)]
      /\ channels \in [Clients -> SUBSET Channels]
      /\ \A k \in Channels : IsInjective(lists[k])
      /\ \A k \in Channels, d \in Clients :
           Contains(lists[k], d) <=> k \in channels[d]
  BY DEF DeviceInv, PubSubTypeOK, TablesAgree
<1>2. channels[c] \subseteq Listed(c)
  <2> SUFFICES ASSUME NEW ch \in channels[c] PROVE ch \in Listed(c)
    OBVIOUS
  <2>1. ch \in Channels /\ Contains(lists[ch], c)
    BY <1>1
  <2>2. lists[ch] # << >>
    BY <1>1, <2>1 DEF Contains
  <2> QED BY <2>1, <2>2 DEF Listed, DeviceInv
<1>3. /\ connected' = connected \ {c}
      /\ channels' = [channels EXCEPT ![c] = {}]
      /\ lists' = Unlisted(c)
      /\ entries' = entries \ {ch \in channels[c] : Unlisted(c)[ch] = << >>}
      /\ UNCHANGED <<name, flagged, aborted>>
  BY <1>2, SMTT(40) DEF freeClient, smempubsubUnsubscribeAllChannels
<1>4. ASSUME NEW ch \in Channels
      PROVE  /\ Unlisted(c)[ch] \in Seq(Clients)
             /\ IsInjective(Unlisted(c)[ch])
             /\ \A d \in Clients : Contains(Unlisted(c)[ch], d)
                                    <=> ch \in channels[d] /\ d # c
  <2>1. CASE ch \notin channels[c]
    BY <1>1, <2>1 DEF Unlisted
  <2>2. CASE ch \in channels[c]
    <3> DEFINE I == {i \in 1..Len(lists[ch]) : lists[ch][i] = c}
    <3>1. PICK i \in 1..Len(lists[ch]) : lists[ch][i] = c
      BY <1>1, <2>2 DEF Contains
    <3>2. I = {i}
      BY <1>1, <3>1 DEF IsInjective
    <3>3. SelectInSeq(lists[ch], LAMBDA v : v = c) = i
      BY <3>1, <3>2 DEF SelectInSeq, Min
    <3>4. Unlisted(c)[ch] = RemoveAt(lists[ch], i)
      BY <2>2, <3>1, <3>3 DEF Unlisted, RemoveFirst
    <3> QED BY <1>1, <3>1, <3>4, RemoveAtProperties
  <2> QED BY <2>1, <2>2
<1>5. PubSubTypeOK'
  BY <1>1, <1>3, <1>4 DEF DeviceInv, PubSubTypeOK, Unlisted
<1>6. TablesAgree'
  BY <1>1, <1>3, <1>4 DEF TablesAgree
<1>7. \A ch \in Channels : lists'[ch] # << >> => ch \in entries'
  BY <1>1, <1>2, <1>3 DEF Unlisted, Listed, DeviceInv
<1> QED BY <1>1, <1>3, <1>5, <1>6, <1>7, ZenonT(40) DEF DeviceInv

\* Every step of the devices keeps the invariant.
LEMMA DeviceStep ==
  ASSUME DeviceInv, [DeviceNext]_svars
  PROVE  DeviceInv'
<1>1. ASSUME NEW c \in Clients, createClient(c)
      PROVE  DeviceInv'
  <2>1. channels[c] = {}
    BY <1>1, ZenonT(40) DEF createClient, DeviceInv
  <2>2. channels' = channels
    BY <1>1, <2>1 DEF createClient, DeviceInv, PubSubTypeOK
  <2> QED BY <1>1, <2>1, <2>2, SMTT(40) DEF createClient, NewName, DeviceInv,
                                  PubSubTypeOK, TablesAgree
<1>2. ASSUME NEW c \in Clients, NEW n \in Names, DeviceSetName(c, n)
      PROVE  DeviceInv'
  BY <1>2 DEF DeviceSetName, clientSetName, MayCommand, DeviceInv,
              PubSubTypeOK, TablesAgree
<1>3. ASSUME NEW pub \in Channels, NEW n \in Names, smemswitchCommand(pub, n)
      PROVE  DeviceInv'
  <2>1. UNCHANGED <<connected, name, flagged, aborted>>
    BY <1>3 DEF smemswitchCommand
  <2>2. CASE UNCHANGED <<channels, entries, lists>>
    BY <2>1, <2>2 DEF DeviceInv, PubSubTypeOK, TablesAgree
  <2> QED BY <1>3, <2>1, <2>2, SwitchMovesOne, MoveKeepsInv
<1>4. CASE UNCHANGED svars
  BY <1>4 DEF svars, DeviceInv, PubSubTypeOK, TablesAgree
<1> QED
  BY <1>1, <1>2, <1>3, <1>4, SubscribeKeepsInv, FreeKeepsInv, Zenon DEF DeviceNext
-----------------------------------------------------------------------------
\* The invariant holds when the server starts.
LEMMA DeviceInit == PubSubInit => DeviceInv
<1> SUFFICES ASSUME PubSubInit PROVE DeviceInv
  OBVIOUS
<1>1. << >> \in Seq(Clients)
  OBVIOUS
<1>2. PubSubTypeOK
  BY <1>1, Zenon DEF PubSubInit, PubSubTypeOK
<1>3. \A ch \in Channels : lists[ch] = << >>
  BY DEF PubSubInit
<1>4. IsInjective(<< >>) /\ \A c \in Clients : ~Contains(<< >>, c)
  BY DEF IsInjective, Contains
<1>5. TablesAgree
  BY <1>3, <1>4 DEF PubSubInit, TablesAgree
<1> QED BY <1>2, <1>3, <1>5 DEF PubSubInit, DeviceInv

\* The invariant holds throughout.
LEMMA DeviceInvariant == DeviceSpec => []DeviceInv
  BY DeviceInit, DeviceStep, PTL DEF DeviceSpec

\* The client's channels and the server's lists never disagree: subscribe,
\* switch and disconnect update both, for any number of devices.
THEOREM TablesAlwaysAgree == DeviceSpec => []TablesAgree
<1>1. DeviceInv => TablesAgree
  BY DEF DeviceInv
<1> QED BY <1>1, DeviceInvariant, PTL

\* The assertions of smempubsubUnsubscribeChannel never fail.
THEOREM AssertionsHold == DeviceSpec => []NoAssertionFails
<1>1. DeviceInv => NoAssertionFails
  BY DEF DeviceInv, NoAssertionFails
<1> QED BY <1>1, DeviceInvariant, PTL

\* SMEMPUBLISH writes to connections that exist.
THEOREM ReceiversLive == DeviceSpec => []OnlyLiveReceivers
<1>1. DeviceInv => OnlyLiveReceivers
  BY EntriesAreSubscribed DEF OnlyLiveReceivers, ToSet
<1> QED BY <1>1, DeviceInvariant, PTL

\* The subscriptions are well typed.
THEOREM PubSubTypes == DeviceSpec => []PubSubTypeOK
<1>1. DeviceInv => PubSubTypeOK
  BY DEF DeviceInv
<1> QED BY <1>1, DeviceInvariant, PTL

\* The lists implement the routing of channels to devices.
THEOREM RoutingRefined == DeviceSpec => Routed
<1> DEFINE received == [c \in Clients |->
                          {ch \in Channels : Contains(lists[ch], c)}]
<1>1. PubSubInit => R!RoutingInit
  BY DEF PubSubInit, R!RoutingInit, Contains
<1>2. DeviceInv => received = channels
  BY DEF DeviceInv, PubSubTypeOK, TablesAgree
<1>3. DeviceInv' => received' = channels'
  BY DEF DeviceInv, PubSubTypeOK, TablesAgree
<1>4. ASSUME DeviceInv, [DeviceNext]_svars
      PROVE  [R!RoutingNext]_received
  <2> DeviceInv'
    BY <1>4, DeviceStep, SMTT(40)
  <2>0. /\ received = channels /\ received' = channels'
        /\ channels \in [Clients -> SUBSET Channels]
    BY <1>2, <1>3, <1>4 DEF DeviceInv, PubSubTypeOK
  <2> HIDE DEF received
  <2>1. ASSUME NEW c \in Clients, createClient(c) PROVE channels' = channels
    BY <1>4, <2>1 DEF createClient, DeviceInv, PubSubTypeOK
  <2>2. ASSUME NEW c \in Clients, NEW n \in Names, DeviceSetName(c, n)
        PROVE  channels' = channels
    BY <2>2 DEF DeviceSetName, clientSetName
  <2>3. ASSUME NEW c \in Clients, NEW ch \in Channels,
               smemsubscribeCommand(c, {ch})
        PROVE  channels[c] = {} /\ channels' = [channels EXCEPT ![c] = {ch}]
    BY <1>4, <2>0, <2>3, SubscribeKeepsInv, Zenon DEF smemsubscribeCommand
  <2>4. ASSUME NEW c \in Clients, freeClient(c)
        PROVE  channels' = [channels EXCEPT ![c] = {}]
    BY <1>4, <2>4, FreeKeepsInv, SMTT(40)
  <2>5. ASSUME NEW pub \in Channels, NEW n \in Names,
               smemswitchCommand(pub, n)
        PROVE  \/ channels' = channels
               \/ \E c \in Clients : /\ channels[c] # {}
                                     /\ channels' = [channels EXCEPT ![c] = {pub}]
    BY <1>4, <2>5, SwitchMovesOne, ZenonT(40) DEF MovedTo
  <2>6. \/ channels' = channels
        \/ \E c \in Clients :
             \/ channels' = [channels EXCEPT ![c] = {}]
             \/ \E ch \in Channels : channels' = [channels EXCEPT ![c] = {ch}]
    <3>1. CASE UNCHANGED svars
      BY <3>1 DEF svars
    <3>2. CASE \E c \in Clients : createClient(c)
      BY <2>1, <3>2
    <3>3. CASE \E c \in Clients, n \in Names : DeviceSetName(c, n)
      BY <2>2, <3>3
    <3>4. CASE \E c \in Clients, ch \in Channels : smemsubscribeCommand(c, {ch})
      <4>1. PICK c \in Clients, ch \in Channels : smemsubscribeCommand(c, {ch})
        BY <3>4
      <4>2. channels' = [channels EXCEPT ![c] = {ch}]
        BY <2>3, <4>1
      <4> QED BY <4>2, Zenon
    <3>5. CASE \E c \in Clients : freeClient(c)
      <4>1. PICK c \in Clients : freeClient(c)
        BY <3>5
      <4>2. channels' = [channels EXCEPT ![c] = {}]
        BY <2>4, <4>1
      <4> QED BY <4>2, Zenon
    <3>6. CASE \E pub \in Channels, n \in Names : smemswitchCommand(pub, n)
      <4>1. PICK pub \in Channels, n \in Names : smemswitchCommand(pub, n)
        BY <3>6
      <4>2. \/ channels' = channels
            \/ \E c \in Clients : channels' = [channels EXCEPT ![c] = {pub}]
        BY <2>5, <4>1
      <4> QED BY <4>2
    <3> QED
      BY <1>4, <3>1, <3>2, <3>3, <3>4, <3>5, <3>6, Zenon DEF DeviceNext
  <2> QED
    BY <2>0, <2>6, Zenon DEF R!RoutingNext, R!Leave, R!Join, R!Switch, received
<1> QED BY <1>1, <1>4, DeviceInvariant, PTL DEF DeviceSpec, Routed, R!RoutingSpec

\* SMEMSWITCH moves the device it names and no other.
THEOREM SwitchExact == DeviceSpec => SwitchMovesOnlyNamed
<1>1. ASSUME DeviceInv, NEW pub \in Channels, NEW n \in Names,
             smemswitchCommand(pub, n), NEW d \in connected
      PROVE  channels'[d] = IF name[d] = n /\ channels[d] # {}
                            THEN {pub} ELSE channels[d]
  <2>0. d \in Clients /\ channels \in [Clients -> SUBSET Channels]
    BY <1>1 DEF DeviceInv, PubSubTypeOK
  <2>1. CASE Seen(n) = {} /\ channels' = channels
    <3>1. ASSUME name[d] = n, channels[d] # {} PROVE FALSE
      <4>1. PICK ch \in Channels : ch \in channels[d]
        BY <2>0, <3>1, SMTT(40)
      <4>2. Contains(lists[ch], d)
        BY <1>1, <2>0, <4>1, SMTT(40) DEF DeviceInv, TablesAgree
      <4>3. PICK i \in 1..Len(lists[ch]) : lists[ch][i] = d
        BY <4>2 DEF Contains
      <4>4. i \in DOMAIN lists[ch]
        BY <1>1, <4>3, SMTT(40) DEF DeviceInv, PubSubTypeOK
      <4>5. ch \in entries
        BY <1>1, <4>4, EntriesAreSubscribed
      <4> QED BY <2>1, <3>1, <4>3, <4>4, <4>5 DEF Seen, SeenAt
    <3> QED BY <2>1, <3>1
  <2>2. CASE \E c \in Clients, src \in Channels : \E i \in Nat :
               MovedTo(c, src, i, pub) /\ name[c] = n
    <3>1. PICK c \in connected : /\ name[c] = n /\ channels[c] # {}
                                /\ channels' = [channels EXCEPT ![c] = {pub}]
      BY <2>2, Zenon DEF MovedTo
    <3>2. name[d] = n => d = c
      BY <1>1, <3>1, NoNameIsNone DEF DeviceInv
    <3> QED BY <1>1, <2>0, <3>1, <3>2 DEF DeviceInv, PubSubTypeOK
  <2> QED BY <1>1, <2>1, <2>2, SwitchMovesOne
<1>2. DeviceInv => [\A pub \in Channels, n \in Names : smemswitchCommand(pub, n)
                    =>
         \A c \in connected : channels'[c] =
           IF name[c] = n /\ channels[c] # {} THEN {pub} ELSE channels[c]]_svars
  BY <1>1, Zenon
<1> QED BY <1>2, DeviceInvariant, PTL DEF SwitchMovesOnlyNamed
=============================================================================
