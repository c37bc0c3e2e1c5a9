-------------------------- MODULE NvDecoderProofs --------------------------
(***************************************************************************)
(* Proofs about NvDecoder, for rings of any size and any number of         *)
(* surfaces: in one thread the waiting loops of the queues are never       *)
(* entered, and what display puts into the queue comes out in order.       *)
(***************************************************************************)
EXTENDS NvDecoder, SequenceTheorems, FiniteSetTheorems, TLAPS

\* Frames that are queued or can still be put into the queue by this call.
Load ==
  aFrameQueue.count + Cardinality(pending)
  + (IF cur = {} THEN 0 ELSE 1) + (IF todo = "nothing" THEN 0 ELSE 1)

\* The inductive invariant.  There is room because each call takes a frame out
\* before its packet brings one in, and the parser holds back no more than
\* Delay between calls; and a surface is marked only while display has it.
DecoderInv ==
  /\ DecoderTypeOK /\ IsFiniteSet(pending)
  /\ aDisplayQueue.count = 0
  /\ phase \in {"wait", "enqueue"} => \E p \in Pictures : cur = {p}
  /\ phase \notin {"wait", "enqueue"} => cur = {}
  /\ todo # "nothing" => phase \in {"parse", "enqueue"}
  /\ phase \in {"new", "idle", "closed"} => Cardinality(pending) <= Delay
  /\ Load <= Delay + 1
  /\ aFrameQueue.count > 0 => have_decoded_frames
  /\ \A s \in aIsFrameInUse : s \in leaked \/ (phase = "enqueue" /\ \E p \in cur : p.surface = s)
  /\ phase # "closed" => \A h \in held : alive[h] > 0
  /\ OutputInOrder
-----------------------------------------------------------------------------
\* Positions are less than twice the size before they are wrapped.
LEMMA Wrap ==
  ASSUME NEW x \in Nat, x < 2 * QueueSize
  PROVE  x % QueueSize = IF x < QueueSize THEN x ELSE x - QueueSize
<1>1. QueueSize \in Nat /\ QueueSize > 0
  BY DecoderConstants
<1>2. CASE x < QueueSize
  BY <1>1, <1>2
<1>3. CASE x >= QueueSize
  <2> DEFINE r == x % QueueSize
             d == x \div QueueSize
  <2>1. r \in 0..(QueueSize - 1) /\ x = QueueSize * d + r /\ d \in Nat
    BY <1>1
  <2>2. d = 1
    BY <1>1, <1>3, <2>1
  <2> HIDE DEF r, d
  <2>3. r = x - QueueSize
    BY <1>1, <2>1, <2>2
  <2>4. ~(x < QueueSize)
    BY <1>1, <1>3
  <2> QED BY <2>3, <2>4, Zenon DEF r
<1> QED BY <1>1, <1>2, <1>3

\* The slot of the i-th entry of a ring.
LEMMA Slot ==
  ASSUME NEW S, NEW q \in Rings(S), NEW i \in 0..QueueSize
  PROVE  /\ q.read \in 0..(QueueSize - 1) /\ q.count \in 0..QueueSize
         /\ q.slots \in [0..(QueueSize - 1) -> S \cup {0}]
         /\ (q.read + i) % QueueSize = IF q.read + i < QueueSize THEN q.read + i
                                       ELSE (q.read + i) - QueueSize
         /\ (q.read + i) % QueueSize \in 0..(QueueSize - 1)
<1>1. /\ q.read \in 0..(QueueSize - 1) /\ q.count \in 0..QueueSize
      /\ q.slots \in [0..(QueueSize - 1) -> S \cup {0}]
      /\ QueueSize \in Nat /\ QueueSize > 0
  BY DecoderConstants DEF Rings
<1>2. q.read + i \in Nat /\ q.read + i < 2 * QueueSize
  BY <1>1
<1>3. (q.read + i) % QueueSize = IF q.read + i < QueueSize THEN q.read + i
                                 ELSE (q.read + i) - QueueSize
  BY <1>2, Wrap
<1>4. (q.read + i) % QueueSize \in 0..(QueueSize - 1)
  BY <1>1, <1>2
<1> QED BY <1>1, <1>3, <1>4

\* What a ring holds is a sequence of its values.
LEMMA ContentsSeq ==
  ASSUME NEW S, NEW q \in Rings(S)
  PROVE  /\ Contents(q) \in Seq(S \cup {0}) /\ Len(Contents(q)) = q.count
         /\ \A i \in 1..q.count : Contents(q)[i] = q.slots[(q.read + i - 1) % QueueSize]
<1>1. q.count \in 0..QueueSize /\ QueueSize \in Nat
  BY DecoderConstants DEF Rings
<1>2. ASSUME NEW i \in 1..q.count
      PROVE  q.slots[(q.read + i - 1) % QueueSize] \in S \cup {0}
  <2>1. i - 1 \in 0..QueueSize /\ q.read \in Nat
    BY <1>1 DEF Rings
  <2>2. (q.read + (i - 1)) % QueueSize \in 0..(QueueSize - 1)
        /\ q.slots \in [0..(QueueSize - 1) -> S \cup {0}]
    BY <2>1, Slot
  <2>3. q.read + i - 1 = q.read + (i - 1)
    BY <1>1, <2>1
  <2> QED BY <2>2, <2>3
<1>3. Contents(q) \in [1..q.count -> S \cup {0}]
  BY <1>2 DEF Contents
<1>4. Contents(q) \in Seq(S \cup {0}) /\ Len(Contents(q)) = q.count
  BY <1>1, <1>3
<1> QED BY <1>4 DEF Contents

\* Enqueue puts a value at the end.
LEMMA Enqueued ==
  ASSUME NEW S, NEW q \in Rings(S), q.count < QueueSize, NEW x \in S
  PROVE  /\ Enqueue(q, x) \in Rings(S) /\ Enqueue(q, x).count = q.count + 1
         /\ Contents(Enqueue(q, x)) = Append(Contents(q), x)
<1> DEFINE w == (q.read + q.count) % QueueSize
           e == Enqueue(q, x)
<1>1. /\ q.read \in 0..(QueueSize - 1) /\ q.count \in 0..QueueSize
      /\ q.slots \in [0..(QueueSize - 1) -> S \cup {0}] /\ QueueSize \in Nat
      /\ w \in 0..(QueueSize - 1)
      /\ w = IF q.read + q.count < QueueSize THEN q.read + q.count
             ELSE (q.read + q.count) - QueueSize
  <2>1. q.count \in 0..QueueSize
    BY DEF Rings
  <2> QED BY <2>1, Slot, DecoderConstants
<1>2. e = [q EXCEPT !.slots[w] = x, !.count = q.count + 1]
  BY DEF Enqueue
<1> HIDE DEF w, e
<1>3. e.slots = [q.slots EXCEPT ![w] = x] /\ e.read = q.read /\ e.count = q.count + 1
  BY <1>2 DEF Rings
<1>4. e \in Rings(S)
  <2>1. e.count \in 0..QueueSize
    BY <1>1, <1>3
  <2>2. e.slots \in [0..(QueueSize - 1) -> S \cup {0}]
    BY <1>1, <1>3
  <2>3. e = [slots |-> e.slots, read |-> e.read, count |-> e.count]
    BY <1>2 DEF Rings
  <2> QED BY <1>1, <1>3, <2>1, <2>2, <2>3 DEF Rings
<1>5. /\ Contents(e) \in Seq(S \cup {0}) /\ Len(Contents(e)) = q.count + 1
      /\ \A i \in 1..(q.count + 1) : Contents(e)[i] = e.slots[(q.read + i - 1) % QueueSize]
  <2>1. /\ Contents(e) \in Seq(S \cup {0}) /\ Len(Contents(e)) = e.count
        /\ \A i \in 1..e.count : Contents(e)[i] = e.slots[(e.read + i - 1) % QueueSize]
    BY <1>4, ContentsSeq
  <2> QED BY <1>3, <2>1, Zenon
<1>6. /\ Contents(q) \in Seq(S \cup {0}) /\ Len(Contents(q)) = q.count
      /\ \A i \in 1..q.count : Contents(q)[i] = q.slots[(q.read + i - 1) % QueueSize]
  BY ContentsSeq
<1>7. ASSUME NEW i \in 1..q.count PROVE Contents(e)[i] = Contents(q)[i]
  <2>1. i - 1 \in 0..QueueSize /\ q.read + i - 1 = q.read + (i - 1) /\ i \in 1..(q.count + 1)
    BY <1>1
  <2> DEFINE k == (q.read + (i - 1)) % QueueSize
  <2>2. k \in 0..(QueueSize - 1)
        /\ k = IF q.read + (i - 1) < QueueSize THEN q.read + (i - 1)
               ELSE (q.read + (i - 1)) - QueueSize
    BY <2>1, Slot
  <2>3. Contents(e)[i] = e.slots[k] /\ Contents(q)[i] = q.slots[k]
    BY <1>5, <1>6, <2>1
  <2> HIDE DEF k
  <2>4. k # w
    BY <1>1, <2>2
  <2> QED BY <1>1, <1>3, <2>2, <2>3, <2>4
<1>8. Contents(e)[q.count + 1] = x
  <2>1. q.count + 1 \in 1..(q.count + 1) /\ q.read + (q.count + 1) - 1 = q.read + q.count
    BY <1>1
  <2>2. Contents(e)[q.count + 1] = e.slots[w]
    BY <1>5, <2>1 DEF w
  <2> QED BY <1>1, <1>3, <2>2
<1>9. /\ Append(Contents(q), x) \in Seq(S \cup {0})
      /\ Len(Append(Contents(q), x)) = q.count + 1
      /\ \A i \in 1..q.count : Append(Contents(q), x)[i] = Contents(q)[i]
      /\ Append(Contents(q), x)[q.count + 1] = x
  BY <1>6, AppendProperties
<1>10. \A i \in 1..(q.count + 1) : Contents(e)[i] = Append(Contents(q), x)[i]
  BY <1>1, <1>7, <1>8, <1>9
<1>11. Contents(e) = Append(Contents(q), x)
  BY <1>5, <1>9, <1>10, SeqEqual
<1> QED BY <1>3, <1>4, <1>11 DEF e

\* Dequeue takes the oldest value.
LEMMA Dequeued ==
  ASSUME NEW S, NEW q \in Rings(S), q.count > 0
  PROVE  /\ Dequeue(q) \in Rings(S) /\ Dequeue(q).count = q.count - 1
         /\ Contents(q) # <<>> /\ Front(q) = Head(Contents(q))
         /\ Contents(Dequeue(q)) = Tail(Contents(q))
<1> DEFINE d == Dequeue(q)
           r == (q.read + 1) % QueueSize
<1>1. /\ q.read \in 0..(QueueSize - 1) /\ q.count \in 1..QueueSize
      /\ q.slots \in [0..(QueueSize - 1) -> S \cup {0}]
      /\ QueueSize \in Nat /\ QueueSize > 0 /\ r \in 0..(QueueSize - 1)
      /\ r = IF q.read + 1 < QueueSize THEN q.read + 1 ELSE (q.read + 1) - QueueSize
  <2>1. 1 \in 0..QueueSize /\ QueueSize \in Nat /\ QueueSize > 0
    BY DecoderConstants
  <2>2. /\ q.read \in 0..(QueueSize - 1) /\ q.count \in 0..QueueSize
        /\ q.slots \in [0..(QueueSize - 1) -> S \cup {0}] /\ r \in 0..(QueueSize - 1)
        /\ r = IF q.read + 1 < QueueSize THEN q.read + 1 ELSE (q.read + 1) - QueueSize
    BY <2>1, Slot
  <2> HIDE DEF r
  <2>3. q.count \in 1..QueueSize
    BY <2>1, <2>2
  <2> QED BY <2>1, <2>2, <2>3
<1>2. d = [q EXCEPT !.read = r, !.count = q.count - 1]
  BY DEF Dequeue
<1> HIDE DEF d, r
<1>3. d.slots = q.slots /\ d.read = r /\ d.count = q.count - 1
  BY <1>2 DEF Rings
<1>4. d \in Rings(S)
  <2>1. d.count \in 0..QueueSize
    BY <1>1, <1>3
  <2>2. d = [slots |-> d.slots, read |-> d.read, count |-> d.count]
    BY <1>2 DEF Rings
  <2> QED BY <1>1, <1>3, <2>1, <2>2 DEF Rings
<1>5. /\ Contents(d) \in Seq(S \cup {0}) /\ Len(Contents(d)) = q.count - 1
      /\ \A i \in 1..(q.count - 1) : Contents(d)[i] = q.slots[(r + i - 1) % QueueSize]
  BY <1>3, <1>4, ContentsSeq
<1>6. /\ Contents(q) \in Seq(S \cup {0}) /\ Len(Contents(q)) = q.count
      /\ \A i \in 1..q.count : Contents(q)[i] = q.slots[(q.read + i - 1) % QueueSize]
  BY ContentsSeq
<1>7. Contents(q) # <<>>
  BY <1>1, <1>6, EmptySeq
<1>8. Front(q) = Head(Contents(q))
  <2>1. 1 \in 1..q.count /\ q.read + 1 - 1 = q.read /\ q.read % QueueSize = q.read
    <3>1. q.read \in Nat /\ q.read < QueueSize /\ q.read < 2 * QueueSize
      BY <1>1
    <3>2. q.read % QueueSize = q.read
      BY <3>1, Wrap
    <3> QED BY <1>1, <3>1, <3>2
  <2>2. Contents(q)[1] = q.slots[q.read]
    BY <1>6, <2>1
  <2> QED BY <1>6, <1>7, <2>2 DEF Front
<1>9. /\ Tail(Contents(q)) \in Seq(S \cup {0}) /\ Len(Tail(Contents(q))) = q.count - 1
      /\ \A i \in 1..(q.count - 1) : Tail(Contents(q))[i] = Contents(q)[i + 1]
  BY <1>6, <1>7, HeadTailProperties
<1>10. ASSUME NEW i \in 1..(q.count - 1) PROVE Contents(d)[i] = Tail(Contents(q))[i]
  <2>1. /\ i \in 0..QueueSize /\ i - 1 \in 0..QueueSize /\ i + 1 \in 1..q.count
        /\ q.read + (i + 1) - 1 = q.read + i /\ r + i - 1 = r + (i - 1)
    BY <1>1
  <2> DEFINE a == (q.read + i) % QueueSize
             b == (r + (i - 1)) % QueueSize
  <2>2. a = IF q.read + i < QueueSize THEN q.read + i ELSE (q.read + i) - QueueSize
    BY <2>1, Slot
  <2>3. b = IF r + (i - 1) < QueueSize THEN r + (i - 1) ELSE (r + (i - 1)) - QueueSize
    BY <1>3, <1>4, <2>1, Slot
  <2>4. Contents(d)[i] = q.slots[b] /\ Tail(Contents(q))[i] = q.slots[a]
    BY <1>5, <1>6, <1>9, <2>1
  <2> HIDE DEF a, b
  <2>5. a = b
    <3>1. CASE q.read + 1 < QueueSize
      BY <1>1, <2>1, <2>2, <2>3, <3>1
    <3>2. CASE q.read + 1 = QueueSize
      BY <1>1, <2>1, <2>2, <2>3, <3>2
    <3> QED BY <1>1, <3>1, <3>2
  <2> QED BY <2>4, <2>5
<1>11. Contents(d) = Tail(Contents(q))
  BY <1>5, <1>9, <1>10, SeqEqual
<1> QED BY <1>3, <1>4, <1>7, <1>8, <1>11 DEF d
-----------------------------------------------------------------------------
\* Objects are created and destroyed one of each kind at a time.
LEMMA AliveIs ==
  ASSUME DecoderTypeOK, NEW S \in SUBSET Handles
  PROVE  /\ Created(S) \in [Handles -> Nat]
         /\ \A h \in Handles : Created(S)[h] = IF h \in S THEN alive[h] + 1 ELSE alive[h]
         /\ \A h \in Handles : Destroyed(S)[h] = IF h \in S THEN alive[h] - 1 ELSE alive[h]
BY DEF DecoderTypeOK, Created, Destroyed

\* Opening the device.
LEMMA InitKeeps ==
  ASSUME DecoderInv, nvenc_decode_init
  PROVE  DecoderInv'
<1>1. PICK made \in SUBSET Handles :
        \/ phase' = "idle" /\ held' = made /\ alive' = Created(made)
        \/ phase' = "closed" /\ held' = made \ Resets /\ alive' = Created(made \ Closes)
  <2>1. PICK ok \in BOOLEAN, n \in 0..Len(InitSteps) :
          LET made == nvenc_dyload_cuda(ok) \cup {InitSteps[i] : i \in 1..n} IN
          \/ phase' = "idle" /\ held' = made /\ alive' = Created(made)
          \/ phase' = "closed" /\ held' = made \ Resets /\ alive' = Created(made \ Closes)
    BY DEF nvenc_decode_init
  <2>2. nvenc_dyload_cuda(ok) \cup {InitSteps[i] : i \in 1..n} \subseteq Handles
    BY DEF nvenc_dyload_cuda, InitSteps, Handles
  <2> QED BY <2>1, <2>2
<1>2. phase = "new" /\ UNCHANGED <<parser, cur, queues, info, reopened, records>>
  BY DEF nvenc_decode_init
<1>3. DecoderTypeOK /\ held' \in SUBSET Handles /\ made \ Closes \in SUBSET Handles
  BY <1>1 DEF DecoderInv
<1>4. alive' \in [Handles -> Nat] /\ (phase' # "closed" => \A h \in held' : alive'[h] > 0)
  BY <1>1, <1>3, AliveIs DEF DecoderTypeOK
<1>5. DecoderTypeOK'
  BY <1>1, <1>2, <1>3, <1>4 DEF DecoderTypeOK, parser, queues, records
<1>6. Load' = Load /\ OutputInOrder'
  BY <1>2 DEF Load, DecoderInv, OutputInOrder, parser, queues, records
<1> QED BY <1>1, <1>2, <1>4, <1>5, <1>6 DEF DecoderInv, parser, queues, records

\* Closing it.
LEMMA CloseKeeps ==
  ASSUME DecoderInv, nvenc_decode_close
  PROVE  DecoderInv'
<1>1. /\ phase = "idle" /\ phase' = "closed" /\ held' = held \ Resets
      /\ alive' = Destroyed(held \cap Closes)
      /\ UNCHANGED <<parser, cur, queues, info, reopened, records>>
  BY DEF nvenc_decode_close
<1>2. DecoderTypeOK /\ held \subseteq Handles /\ \A h \in held : alive[h] > 0
  BY <1>1 DEF DecoderInv, DecoderTypeOK
<1>3. /\ alive \in [Handles -> Nat]
      /\ \A h \in Handles : alive'[h] = IF h \in held \cap Closes THEN alive[h] - 1 ELSE alive[h]
      /\ alive' = [h \in Handles |-> alive'[h]]
  BY <1>1, <1>2, AliveIs DEF DecoderTypeOK, Destroyed
<1>4. alive' \in [Handles -> Nat]
  <2>1. \A h \in Handles : alive'[h] \in Nat
    BY <1>2, <1>3
  <2> QED BY <1>3, <2>1
<1>5. DecoderTypeOK'
  BY <1>1, <1>2, <1>4 DEF DecoderTypeOK, parser, queues, records
<1>6. Load' = Load /\ OutputInOrder'
  BY <1>1 DEF Load, DecoderInv, OutputInOrder, parser, queues, records
<1> QED BY <1>1, <1>4, <1>5, <1>6 DEF DecoderInv, parser, queues, records

\* A sequence header, and a packet without a picture: the packet brings nothing.
LEMMA HeaderKeeps ==
  ASSUME DecoderInv, ParserSkips \/ \E w \in Widths : HandleVideoSequence(w)
  PROVE  DecoderInv'
<1>1. /\ phase = "parse" /\ todo # "nothing"
      /\ \/ todo' = "nothing" /\ lost' = lost \cup {stamp}
         \/ todo' = "picture" /\ lost' = lost
      /\ UNCHANGED <<phase, packets, stamp, pending, cur, queues, leaked, shown, output, drained>>
  BY DEF ParserSkips, HandleVideoSequence
<1>2. /\ info' \in Nat /\ held' \subseteq Handles /\ alive' \in [Handles -> Nat]
      /\ reopened' \in Nat /\ \A h \in held' : alive'[h] > 0
  <2>1. DecoderTypeOK /\ \A h \in held : alive[h] > 0
    BY <1>1 DEF DecoderInv
  <2>2. CASE UNCHANGED handles
    BY <2>1, <2>2 DEF handles, DecoderTypeOK
  <2>3. CASE \E w \in Widths, made \in Openings : nvenc_open_decoder(w, made)
    <3>1. PICK w \in Widths, made \in Openings : nvenc_open_decoder(w, made)
      BY <2>3
    <3>2. FFALIGN(w) \in Nat
      <4>1. w \in Nat /\ Align \in Nat \ {0}
        BY DecoderConstants
      <4>2. (w + Align - 1) \in Nat
        BY <4>1
      <4>3. (w + Align - 1) \div Align \in Nat
        BY <4>1, <4>2
      <4> QED BY <4>1, <4>3 DEF FFALIGN
    <3>3. made \in SUBSET Handles
      BY DEF Openings, Handles
    <3>4. /\ info' \in {info, FFALIGN(w)} /\ held' = (held \ {"context"}) \cup made
          /\ alive' = Created(made)
      BY <3>1 DEF nvenc_open_decoder
    <3>5. reopened' \in Nat
      <4>1. reopened' = reopened + (IF "context" \in held THEN 1 ELSE 0)
        BY <3>1, Zenon DEF nvenc_open_decoder
      <4> QED BY <2>1, <4>1 DEF DecoderTypeOK
    <3>6. alive' \in [Handles -> Nat] /\ \A h \in held' : alive'[h] > 0
      BY <2>1, <3>3, <3>4, AliveIs DEF DecoderTypeOK
    <3> QED BY <2>1, <3>2, <3>3, <3>4, <3>5, <3>6 DEF DecoderTypeOK
  <2> QED BY <2>2, <2>3 DEF ParserSkips, HandleVideoSequence
<1>3. DecoderTypeOK'
  <2>1. stamp \in 0..MaxPackets
    BY DEF DecoderInv, DecoderTypeOK
  <2>2. lost' \subseteq 0..MaxPackets
    BY <1>1, <2>1 DEF DecoderInv, DecoderTypeOK
  <2> QED BY <1>1, <1>2, <2>2 DEF DecoderInv, DecoderTypeOK, queues
<1>4. Load' <= Delay + 1
  <2>1. /\ aFrameQueue.count \in Nat /\ Cardinality(pending) \in Nat /\ Delay \in Nat
        /\ Load <= Delay + 1 /\ cur = {} /\ cur' = {}
    BY <1>1, FS_CardinalityType, DecoderConstants DEF DecoderInv, DecoderTypeOK, Rings
  <2> QED BY <1>1, <2>1 DEF Load, queues
<1>5. OutputInOrder'
  BY <1>1 DEF DecoderInv, OutputInOrder, queues
<1> QED BY <1>1, <1>2, <1>3, <1>4, <1>5 DEF DecoderInv, queues

\* A picture is found: it is held by the parser, or waits for its surface.
LEMMA DecodeKeeps ==
  ASSUME DecoderInv, NEW s \in Surfaces, HandlePictureDecode(s)
  PROVE  DecoderInv'
<1> DEFINE p == [surface |-> s, pts |-> stamp]
<1>1. /\ phase = "parse" /\ todo # "nothing" /\ todo' = "nothing"
      /\ \/ phase' = "wait" /\ cur' = {p} /\ pending' = pending
         \/ pending' = pending \cup {p} /\ phase' = phase /\ cur' = cur
      /\ UNCHANGED <<packets, stamp, queues, handles, records>>
  BY DEF HandlePictureDecode
<1>2. p \in Pictures
  BY <1>1, DecoderConstants DEF DecoderInv, DecoderTypeOK, Pictures
<1> HIDE DEF p
<1>3. /\ IsFiniteSet(pending') /\ Cardinality(pending') \in Nat /\ Cardinality(pending) \in Nat
      /\ Cardinality(pending') <= Cardinality(pending) + 1
  <2>1. IsFiniteSet(pending)
    BY DEF DecoderInv
  <2>2. Cardinality(pending) \in Nat
    BY <2>1, FS_CardinalityType
  <2>3. /\ IsFiniteSet(pending \cup {p})
        /\ Cardinality(pending \cup {p}) \in {Cardinality(pending), Cardinality(pending) + 1}
    BY <2>1, FS_AddElement
  <2> QED BY <1>1, <2>1, <2>2, <2>3
<1>4. DecoderTypeOK'
  BY <1>1, <1>2 DEF DecoderInv, DecoderTypeOK, queues, handles, records
<1>5. Load' <= Delay + 1
  <2>1. /\ aFrameQueue.count \in Nat /\ Delay \in Nat /\ Load <= Delay + 1 /\ cur = {}
    BY <1>1, DecoderConstants DEF DecoderInv, DecoderTypeOK, Rings
  <2>2. Load = aFrameQueue.count + Cardinality(pending) + 0 + 1
    BY <1>1, <2>1 DEF Load
  <2>3. CASE cur' = {p} /\ pending' = pending
    BY <1>1, <1>3, <2>1, <2>2, <2>3 DEF Load, queues
  <2>4. CASE cur' = cur
    BY <1>1, <1>3, <2>1, <2>2, <2>4 DEF Load, queues
  <2> QED BY <1>1, <2>3, <2>4
<1>6. OutputInOrder' /\ \A h \in held' : alive'[h] > 0
  BY <1>1 DEF DecoderInv, OutputInOrder, queues, records, handles
<1> QED BY <1>1, <1>2, <1>3, <1>4, <1>5, <1>6 DEF DecoderInv, queues, records

\* The surface is free, and the picture is decoded.
LEMMA AvailableKeeps ==
  ASSUME DecoderInv, PictureAvailable
  PROVE  DecoderInv'
<1>1. /\ phase = "wait" /\ phase' = "parse" /\ pending' = pending \cup cur /\ cur' = {}
      /\ UNCHANGED <<packets, stamp, todo, queues, handles, records>>
  BY DEF PictureAvailable
<1>2. PICK p \in Pictures : cur = {p}
  BY <1>1 DEF DecoderInv
<1>3. /\ IsFiniteSet(pending') /\ Cardinality(pending') \in Nat /\ Cardinality(pending) \in Nat
      /\ Cardinality(pending') <= Cardinality(pending) + 1
  <2>1. IsFiniteSet(pending)
    BY DEF DecoderInv
  <2>2. /\ IsFiniteSet(pending \cup {p})
        /\ Cardinality(pending \cup {p}) \in {Cardinality(pending), Cardinality(pending) + 1}
    BY <2>1, FS_AddElement
  <2> QED BY <1>1, <1>2, <2>1, <2>2, FS_CardinalityType
<1>4. DecoderTypeOK' /\ todo = "nothing"
  BY <1>1, <1>2 DEF DecoderInv, DecoderTypeOK, queues, handles, records
<1>5. Load' <= Delay + 1
  <2>1. aFrameQueue.count \in Nat /\ Delay \in Nat /\ Load <= Delay + 1
    BY DecoderConstants DEF DecoderInv, DecoderTypeOK, Rings
  <2>2. Load = aFrameQueue.count + Cardinality(pending) + 1 + 0
    BY <1>2, <1>4 DEF Load
  <2> QED BY <1>1, <1>3, <1>4, <2>1, <2>2 DEF Load, queues
<1>6. OutputInOrder' /\ \A h \in held' : alive'[h] > 0
  BY <1>1 DEF DecoderInv, OutputInOrder, queues, records, handles
<1> QED BY <1>1, <1>3, <1>4, <1>5, <1>6 DEF DecoderInv, queues, records

\* frame_enqueue: the picture that display has goes into the queue, which has
\* room for it.
LEMMA EnqueueKeeps ==
  ASSUME DecoderInv, frame_enqueue
  PROVE  DecoderInv'
<1>1. /\ phase = "enqueue" /\ phase' = "parse" /\ cur' = {} /\ have_decoded_frames' = TRUE
      /\ UNCHANGED <<parser, aDisplayQueue, handles, leaked, lost, output, drained>>
  BY DEF frame_enqueue
<1>2. PICK p \in Pictures : cur = {p}
  BY <1>1 DEF DecoderInv
<1>3. /\ aFrameQueue' = Enqueue(aFrameQueue, p.pts) /\ shown' = Append(shown, p.pts)
      /\ aIsFrameInUse' = aIsFrameInUse \ {p.surface} /\ HasRoom(aFrameQueue)
  BY <1>2 DEF frame_enqueue
<1>4. /\ aFrameQueue \in Rings(0..MaxPackets) /\ aFrameQueue.count < QueueSize
      /\ p.pts \in 0..MaxPackets /\ DecoderTypeOK
  BY <1>3 DEF DecoderInv, DecoderTypeOK, HasRoom, Pictures
<1>5. /\ aFrameQueue' \in Rings(0..MaxPackets) /\ aFrameQueue'.count = aFrameQueue.count + 1
      /\ Contents(aFrameQueue') = Append(Contents(aFrameQueue), p.pts)
  BY <1>3, <1>4, Enqueued
<1>6. shown' \in Seq(0..MaxPackets)
  BY <1>3, <1>4, AppendProperties DEF DecoderTypeOK
<1>7. DecoderTypeOK'
  BY <1>1, <1>3, <1>4, <1>5, <1>6 DEF DecoderTypeOK, parser, handles
<1>8. Load' <= Delay + 1
  <2>1. /\ aFrameQueue.count \in Nat /\ Delay \in Nat /\ Load <= Delay + 1
        /\ Cardinality(pending) \in Nat
    BY <1>4, FS_CardinalityType, DecoderConstants DEF DecoderInv, Rings
  <2>2. todo' = todo /\ pending' = pending
    BY <1>1 DEF parser
  <2> QED BY <1>1, <1>2, <1>5, <2>1, <2>2 DEF Load
<1>9. OutputInOrder'
  <2> DEFINE C == Contents(aFrameQueue)
             T == (0..MaxPackets) \cup {0}
  <2>1. output \o C = shown
    BY DEF DecoderInv, OutputInOrder
  <2>2. C \in Seq(T) /\ output \in Seq(T) /\ p.pts \in T /\ shown \in Seq(T)
    BY <1>4, ContentsSeq, SeqMonotonic DEF DecoderTypeOK
  <2> HIDE DEF C, T
  <2>3. Append(C, p.pts) = C \o <<p.pts>> /\ Append(shown, p.pts) = shown \o <<p.pts>>
        /\ <<p.pts>> \in Seq(T)
    BY <2>2, AppendIsConcat
  <2>4. output \o (C \o <<p.pts>>) = (output \o C) \o <<p.pts>>
    BY <2>2, <2>3, ConcatAssociative
  <2>5. output' = output /\ Contents(aFrameQueue') = Append(C, p.pts)
    BY <1>1, <1>5 DEF C
  <2>6. Contents(aFrameQueue)' = Contents(aFrameQueue')
    BY DEF Contents
  <2> QED BY <1>3, <2>1, <2>3, <2>4, <2>5, <2>6 DEF OutputInOrder
<1>10. \A s \in aIsFrameInUse' : s \in leaked'
  BY <1>1, <1>2, <1>3 DEF DecoderInv
<1>11. (\A h \in held' : alive'[h] > 0) /\ todo' = todo /\ packets' = packets /\ pending' = pending
  BY <1>1 DEF DecoderInv, handles, parser
<1> QED BY <1>1, <1>7, <1>8, <1>9, <1>10, <1>11 DEF DecoderInv

\* The call returns when the parser holds back no more than Delay pictures.
LEMMA ReturnsKeeps ==
  ASSUME DecoderInv, ParserReturns
  PROVE  DecoderInv'
<1>1. /\ phase = "parse" /\ phase' = "idle" /\ todo = "nothing" /\ Cardinality(pending) <= Delay
      /\ stamp' = 0 /\ UNCHANGED <<packets, todo, pending, cur, queues, handles, records>>
  BY DEF ParserReturns
<1>2. DecoderTypeOK'
  BY <1>1, DecoderConstants DEF DecoderInv, DecoderTypeOK, queues, handles, records
<1>3. Load' = Load /\ OutputInOrder' /\ \A h \in held' : alive'[h] > 0
  BY <1>1 DEF Load, DecoderInv, OutputInOrder, parser, queues, handles, records
<1> QED BY <1>1, <1>2, <1>3 DEF DecoderInv, parser, queues, handles, records

\* The ring of pictures to display is empty before and after, so display gets
\* the picture that it put in.
LEMMA DisplayRing ==
  ASSUME NEW q \in Rings(Surfaces), q.count = 0, NEW s \in Surfaces
  PROVE  /\ Front(Enqueue(q, s)) = s
         /\ Dequeue(Enqueue(q, s)) \in Rings(Surfaces)
         /\ Dequeue(Enqueue(q, s)).count = 0
<1> DEFINE e == Enqueue(q, s)
<1>1. 0 < QueueSize
  BY DecoderConstants
<1>2. e \in Rings(Surfaces) /\ e.count = 1 /\ Contents(e) = Append(Contents(q), s)
  BY <1>1, Enqueued
<1>3. Contents(q) = <<>>
  BY ContentsSeq, EmptySeq
<1> HIDE DEF e
<1>4. Contents(e) = <<s>>
  BY <1>2, <1>3
<1>5. /\ Dequeue(e) \in Rings(Surfaces) /\ Dequeue(e).count = 0
      /\ Front(e) = Head(Contents(e))
  <2>1. e.count > 0
    BY <1>2
  <2>2. /\ Dequeue(e) \in Rings(Surfaces) /\ Dequeue(e).count = e.count - 1
        /\ Front(e) = Head(Contents(e))
    BY <1>2, <2>1, Dequeued
  <2> QED BY <1>2, <2>2
<1> QED BY <1>4, <1>5 DEF e

\* Display gives up the picture, or has it for the queue.
LEMMA DisplayKeeps ==
  ASSUME DecoderInv, NEW p \in pending, NEW hostOk \in BOOLEAN, NEW memOk \in BOOLEAN,
         HandlePictureDisplay(p, hostOk, memOk)
  PROVE  DecoderInv'
<1> DEFINE q == Enqueue(aDisplayQueue, p.surface)
           stops == "host" \notin held /\ ~hostOk
<1>1. DecoderTypeOK /\ p \in Pictures /\ p.surface \in Surfaces /\ p.pts \in 0..MaxPackets
  BY DEF DecoderInv, DecoderTypeOK, Pictures
<1>2. Front(q) = p.surface /\ Dequeue(q) \in Rings(Surfaces) /\ Dequeue(q).count = 0
  BY <1>1, DisplayRing DEF DecoderInv, DecoderTypeOK
<1>3. /\ phase = "parse" /\ pending' = pending \ {p} /\ aDisplayQueue' = Dequeue(q)
      /\ \/ /\ phase' = "enqueue" /\ cur' = {[surface |-> Front(q), pts |-> p.pts]}
            /\ lost' = lost /\ leaked' = leaked
            /\ aIsFrameInUse' = aIsFrameInUse \cup {p.surface}
         \/ /\ phase' = "parse" /\ cur' = cur /\ lost' = lost \cup {p.pts}
            /\ \/ leaked' = leaked /\ aIsFrameInUse' = (aIsFrameInUse \cup {p.surface}) \ {Front(q)}
               \/ leaked' = leaked \cup {p.surface} /\ aIsFrameInUse' = aIsFrameInUse \cup {p.surface}
      /\ have_decoded_frames' = (have_decoded_frames \/ (~stops /\ ~memOk))
      /\ \/ held' = held /\ alive' = alive
         \/ held' = held \cup {"host"} /\ alive' = Created({"host"})
      /\ UNCHANGED <<packets, stamp, todo, aFrameQueue, info, reopened, shown, output, drained>>
  BY DEF HandlePictureDisplay
<1>4. have_decoded_frames' \in BOOLEAN /\ (have_decoded_frames => have_decoded_frames')
  BY <1>1, <1>3, Zenon DEF DecoderTypeOK
<1> HIDE DEF q, stops
<1>5. [surface |-> Front(q), pts |-> p.pts] \in Pictures
  BY <1>1, <1>2 DEF Pictures
<1>6. /\ held' \subseteq Handles /\ alive' \in [Handles -> Nat]
      /\ \A h \in held' : alive'[h] > 0
  <2>1. {"host"} \in SUBSET Handles
    BY DEF Handles
  <2>2. \A h \in held : alive[h] > 0
    BY <1>3 DEF DecoderInv
  <2> QED BY <1>1, <1>3, <2>1, <2>2, AliveIs DEF DecoderTypeOK
<1>7. DecoderTypeOK'
  BY <1>1, <1>2, <1>3, <1>4, <1>5, <1>6 DEF DecoderTypeOK
<1>8. /\ IsFiniteSet(pending') /\ Cardinality(pending) \in Nat
      /\ Cardinality(pending') = Cardinality(pending) - 1
  <2>1. IsFiniteSet(pending)
    BY DEF DecoderInv
  <2> QED BY <1>3, <2>1, FS_RemoveElement, FS_CardinalityType
<1>9. Load' <= Delay + 1
  <2>1. aFrameQueue.count \in Nat /\ Delay \in Nat /\ Load <= Delay + 1 /\ cur = {}
    BY <1>1, <1>3, DecoderConstants DEF DecoderInv, DecoderTypeOK, Rings
  <2>2. Load = aFrameQueue.count + Cardinality(pending) + 0 + (IF todo = "nothing" THEN 0 ELSE 1)
    BY <2>1 DEF Load
  <2> QED BY <1>3, <1>8, <2>1, <2>2 DEF Load
<1>10. OutputInOrder'
  BY <1>3 DEF DecoderInv, OutputInOrder
<1>11. \A s \in aIsFrameInUse' :
         s \in leaked' \/ (phase' = "enqueue" /\ \E r \in cur' : r.surface = s)
  <2>1. \A s \in aIsFrameInUse : s \in leaked
    BY <1>3 DEF DecoderInv
  <2>2. CASE phase' = "enqueue"
    <3>1. /\ cur' = {[surface |-> p.surface, pts |-> p.pts]} /\ leaked' = leaked
          /\ aIsFrameInUse' = aIsFrameInUse \cup {p.surface}
      BY <1>2, <1>3, <2>2
    <3>2. [surface |-> p.surface, pts |-> p.pts].surface = p.surface
      OBVIOUS
    <3> QED BY <2>1, <2>2, <3>1, <3>2
  <2>3. CASE phase' = "parse"
    BY <1>2, <1>3, <2>1, <2>3
  <2> QED BY <1>3, <2>2, <2>3
<1>12. /\ phase' = "enqueue" => \E r \in Pictures : cur' = {r}
       /\ phase' = "parse" => cur' = {}
       /\ phase' \in {"parse", "enqueue"}
  BY <1>3, <1>5 DEF DecoderInv
<1>13. /\ aFrameQueue'.count > 0 => have_decoded_frames'
       /\ aDisplayQueue'.count = 0
  BY <1>2, <1>3, <1>4 DEF DecoderInv
<1> QED BY <1>6, <1>7, <1>8, <1>9, <1>10, <1>11, <1>12, <1>13 DEF DecoderInv

\* A call takes a frame out, if there is one, before its packet brings one in.
LEMMA FrameKeeps ==
  ASSUME DecoderInv, NEW full \in BOOLEAN, nvenc_decode_frame(full)
  PROVE  DecoderInv'
<1>1. /\ phase = "idle" /\ frame_dequeue
      /\ \/ /\ packets < MaxPackets /\ packets' = packets + 1 /\ todo' = "header"
            /\ phase' = "parse" /\ stamp' \in 0..packets'
            /\ lost' \in {lost, lost \cup {packets'}}
         \/ UNCHANGED <<packets, stamp, todo, phase, lost>>
      /\ drained' \in BOOLEAN
      /\ UNCHANGED <<pending, cur, aDisplayQueue, aIsFrameInUse, have_decoded_frames>>
      /\ UNCHANGED <<handles, leaked, shown>>
  <2>1. packets \in Nat
    BY DEF DecoderInv, DecoderTypeOK
  <2>2. FillPacket /\ packets' = packets + 1
          => stamp' \in 0..packets' /\ lost' \in {lost, lost \cup {packets'}}
    BY <2>1 DEF FillPacket
  <2>3. drained' \in BOOLEAN
    BY Zenon DEF nvenc_decode_frame
  <2> QED BY <2>2, <2>3, Zenon DEF nvenc_decode_frame
<1>2. DecoderTypeOK /\ todo = "nothing" /\ cur = {} /\ Cardinality(pending) \in 0..Delay
  <2>1. Cardinality(pending) \in Nat
    BY FS_CardinalityType DEF DecoderInv
  <2> QED BY <1>1, <2>1, DecoderConstants DEF DecoderInv
<1>3. /\ aFrameQueue \in Rings(0..MaxPackets) /\ aFrameQueue.count \in Nat
      /\ aFrameQueue.count > 0 => have_decoded_frames
      /\ output \in Seq(0..MaxPackets) /\ shown \in Seq(0..MaxPackets)
      /\ output \o Contents(aFrameQueue) = shown
  BY <1>2 DEF DecoderInv, DecoderTypeOK, Rings, OutputInOrder
<1>4. /\ aFrameQueue' \in Rings(0..MaxPackets) /\ output' \in Seq(0..MaxPackets)
      /\ aFrameQueue'.count = IF aFrameQueue.count = 0 THEN 0 ELSE aFrameQueue.count - 1
      /\ output' \o Contents(aFrameQueue') = shown
  <2>1. CASE aFrameQueue.count = 0
    BY <1>1, <1>3, <2>1 DEF frame_dequeue
  <2>2. CASE aFrameQueue.count > 0
    <3> DEFINE C == Contents(aFrameQueue)
               T == (0..MaxPackets) \cup {0}
    <3>1. aFrameQueue' = Dequeue(aFrameQueue) /\ output' = Append(output, Front(aFrameQueue))
      BY <1>1, <1>3, <2>2 DEF frame_dequeue
    <3>2. /\ aFrameQueue' \in Rings(0..MaxPackets) /\ aFrameQueue'.count = aFrameQueue.count - 1
          /\ C # <<>> /\ Front(aFrameQueue) = Head(C) /\ Contents(aFrameQueue') = Tail(C)
      BY <1>3, <2>2, <3>1, Dequeued
    <3>3. C \in Seq(T) /\ output \in Seq(T)
      BY <1>3, ContentsSeq, SeqMonotonic
    <3> HIDE DEF C, T
    <3>4. C = <<Head(C)>> \o Tail(C) /\ <<Head(C)>> \in Seq(T) /\ Tail(C) \in Seq(T)
      BY <3>2, <3>3, HeadTailProperties
    <3>5. Append(output, Head(C)) = output \o <<Head(C)>>
      BY <3>2, <3>3, AppendIsConcat, HeadTailProperties
    <3>6. (output \o <<Head(C)>>) \o Tail(C) = output \o (<<Head(C)>> \o Tail(C))
      BY <3>3, <3>4, ConcatAssociative
    <3>7. output' \o Contents(aFrameQueue') = shown
      BY <1>3, <3>1, <3>2, <3>4, <3>5, <3>6 DEF C
    <3>8. Head(C) \in 0..MaxPackets
      <4>1. Len(output) + 1 \in 1..Len(shown) /\ shown[Len(output) + 1] = C[1]
        BY <1>3, <3>2, <3>3, ConcatProperties, EmptySeq, LenProperties DEF C
      <4>2. shown[Len(output) + 1] \in 0..MaxPackets
        BY <1>3, <4>1, ElementOfSeq
      <4> QED BY <3>2, <3>3, <4>1, <4>2, HeadTailProperties
    <3>9. output' \in Seq(0..MaxPackets)
      BY <1>3, <3>1, <3>2, <3>8, AppendProperties
    <3> QED BY <2>2, <3>2, <3>7, <3>9
  <2> QED BY <1>3, <2>1, <2>2
<1>5. DecoderTypeOK'
  <2>1. /\ packets' \in 0..MaxPackets /\ stamp' \in 0..MaxPackets /\ lost' \subseteq 0..MaxPackets
        /\ todo' \in {"header", "picture", "nothing"} /\ phase' \in {"idle", "parse"}
    <3>1. /\ packets \in 0..MaxPackets /\ stamp \in 0..MaxPackets /\ lost \subseteq 0..MaxPackets
          /\ MaxPackets \in Nat
      BY <1>2, DecoderConstants DEF DecoderTypeOK
    <3>2. CASE /\ packets < MaxPackets /\ packets' = packets + 1 /\ todo' = "header"
               /\ phase' = "parse" /\ stamp' \in 0..packets'
               /\ lost' \in {lost, lost \cup {packets'}}
      <4>1. packets' \in 0..MaxPackets
        BY <3>1, <3>2
      <4>2. stamp' \in 0..MaxPackets
        BY <3>1, <3>2
      <4>3. lost' \subseteq 0..MaxPackets
        BY <3>1, <3>2, <4>1, Zenon
      <4> QED BY <3>2, <4>1, <4>2, <4>3
    <3>3. CASE UNCHANGED <<packets, stamp, todo, phase, lost>>
      BY <1>1, <1>2, <3>1, <3>3
    <3> QED BY <1>1, <3>2, <3>3, Zenon
  <2> QED BY <1>1, <1>2, <1>4, <2>1 DEF DecoderTypeOK, handles
<1>6. Load' <= Delay + 1
  <2>1. Load <= Delay + 1 /\ Load = aFrameQueue.count + Cardinality(pending) + 0 + 0 /\ Delay \in Nat
    BY <1>2, DecoderConstants DEF DecoderInv, Load
  <2>2. Load' = aFrameQueue'.count + Cardinality(pending) + 0 + (IF todo' = "nothing" THEN 0 ELSE 1)
    BY <1>1, <1>2 DEF Load
  <2> QED BY <1>2, <1>3, <1>4, <2>1, <2>2
<1>7. OutputInOrder'
  BY <1>1, <1>4 DEF OutputInOrder, Contents
<1>8. /\ aFrameQueue'.count > 0 => have_decoded_frames'
      /\ todo' # "nothing" => phase' = "parse"
      /\ \A h \in held' : alive'[h] > 0
  BY <1>1, <1>2, <1>3, <1>4 DEF DecoderInv, DecoderTypeOK, handles
<1> QED BY <1>1, <1>2, <1>5, <1>6, <1>7, <1>8 DEF DecoderInv
-----------------------------------------------------------------------------
\* The invariant holds in every state of nvenc_dec.c.
THEOREM DecoderInvariant == DecoderSpec => []DecoderInv
<1>1. DecoderInit => DecoderInv
  <2> SUFFICES ASSUME DecoderInit PROVE DecoderInv
    OBVIOUS
  <2>1. \A S : EmptyRing \in Rings(S) /\ EmptyRing.count = 0
    BY DecoderConstants DEF EmptyRing, Rings
  <2>2. IsFiniteSet(pending) /\ Cardinality(pending) = 0
    BY FS_EmptySet DEF DecoderInit
  <2>3. DecoderTypeOK
    <3>1. alive \in [Handles -> Nat]
      BY DEF DecoderInit
    <3>2. packets \in 0..MaxPackets /\ info \in Nat
      BY DecoderConstants DEF DecoderInit
    <3>3. shown \in Seq(0..MaxPackets) /\ output \in Seq(0..MaxPackets)
      BY DEF DecoderInit
    <3> QED BY <2>1, <3>1, <3>2, <3>3 DEF DecoderInit, DecoderTypeOK
  <2>4. OutputInOrder
    <3>1. Contents(aFrameQueue) = <<>>
      <4>1. EmptyRing \in Rings({}) /\ EmptyRing.count = 0
        BY <2>1
      <4>2. Contents(EmptyRing) \in Seq({} \cup {0}) /\ Len(Contents(EmptyRing)) = 0
        BY <4>1, ContentsSeq
      <4> QED BY <4>2, EmptySeq DEF DecoderInit
    <3> QED BY <3>1 DEF DecoderInit, OutputInOrder
  <2>5. Load <= Delay + 1 /\ Cardinality(pending) <= Delay
    BY <2>1, <2>2, DecoderConstants DEF DecoderInit, Load
  <2> QED BY <2>1, <2>2, <2>3, <2>4, <2>5 DEF DecoderInit, DecoderInv
<1>2. DecoderInv /\ [DecoderNext]_dvars => DecoderInv'
  <2> SUFFICES ASSUME DecoderInv, [DecoderNext]_dvars PROVE DecoderInv'
    OBVIOUS
  <2>1. CASE nvenc_decode_init
    BY <2>1, InitKeeps
  <2>2. CASE nvenc_decode_close
    BY <2>2, CloseKeeps
  <2>3. CASE \E full \in BOOLEAN : nvenc_decode_frame(full)
    BY <2>3, FrameKeeps
  <2>4. CASE ParserSkips \/ \E w \in Widths : HandleVideoSequence(w)
    BY <2>4, HeaderKeeps
  <2>5. CASE \E s \in Surfaces : HandlePictureDecode(s)
    BY <2>5, DecodeKeeps
  <2>6. CASE PictureAvailable
    BY <2>6, AvailableKeeps
  <2>7. CASE \E p \in pending, hostOk, memOk \in BOOLEAN : HandlePictureDisplay(p, hostOk, memOk)
    BY <2>7, DisplayKeeps
  <2>8. CASE frame_enqueue
    BY <2>8, EnqueueKeeps
  <2>9. CASE ParserReturns
    BY <2>9, ReturnsKeeps
  <2>10. CASE UNCHANGED dvars
    <3>1. /\ UNCHANGED <<phase, packets, stamp, todo, pending, cur, aDisplayQueue, aFrameQueue>>
          /\ UNCHANGED <<aIsFrameInUse, have_decoded_frames, info, held, alive, reopened>>
          /\ UNCHANGED <<leaked, lost, shown, output, drained>>
      BY <2>10 DEF dvars, parser, queues, handles, records
    <3>2. DecoderTypeOK' /\ Load' = Load /\ OutputInOrder'
      BY <3>1 DEF DecoderInv, DecoderTypeOK, Load, OutputInOrder
    <3> QED BY <3>1, <3>2 DEF DecoderInv
  <2> QED BY <2>1, <2>2, <2>3, <2>4, <2>5, <2>6, <2>7, <2>8, <2>9, <2>10 DEF DecoderNext, Inside
<1> QED BY <1>1, <1>2, PTL DEF DecoderSpec

\* frame_enqueue and pic_enqueue never wait: there is room in either ring
\* whenever a picture is to be put in.
THEOREM QueuesNeverWait == DecoderSpec => []AlwaysRoom
<1>1. DecoderInv => AlwaysRoom
  <2> SUFFICES ASSUME DecoderInv PROVE AlwaysRoom
    OBVIOUS
  <2>1. ASSUME phase = "enqueue" PROVE HasRoom(aFrameQueue)
    <3>1. cur # {}
      BY <2>1 DEF DecoderInv
    <3>2. /\ Cardinality(pending) \in Nat /\ aFrameQueue.count \in Nat /\ Load <= Delay + 1
          /\ Delay \in Nat /\ QueueSize \in Nat /\ Delay < QueueSize
      BY FS_CardinalityType, DecoderConstants DEF DecoderInv, DecoderTypeOK, Rings
    <3> QED BY <3>1, <3>2 DEF Load, HasRoom
  <2>2. ASSUME phase = "parse" PROVE HasRoom(aDisplayQueue)
    BY DecoderConstants DEF DecoderInv, HasRoom
  <2> QED BY <2>1, <2>2 DEF AlwaysRoom
<1> QED BY <1>1, DecoderInvariant, PTL

\* pic_wait_frame_available waits only for a surface that a display callback
\* left marked.
THEOREM WaitsForLeaked == DecoderSpec => []WaitsOnlyForLeaked
<1>1. DecoderInv => WaitsOnlyForLeaked
  BY DEF DecoderInv, WaitsOnlyForLeaked
<1> QED BY <1>1, DecoderInvariant, PTL

\* nvenc_decode_frame gives out the frames in the order in which display put
\* them into the queue, none twice and none skipped.
THEOREM FramesInOrder == DecoderSpec => []OutputInOrder
<1>1. DecoderInv => OutputInOrder
  BY DEF DecoderInv
<1> QED BY <1>1, DecoderInvariant, PTL
-----------------------------------------------------------------------------
\* The objects: for each pointer there is one, and for each time that
\* nvenc_open_decoder ran over a context, that context and at most one lock,
\* since it makes a lock only after a context.
HandlesInv ==
  /\ phase = "new" => held = {} /\ reopened = 0
  /\ phase # "closed" =>
       /\ \A h \in Handles \ {"context", "lock"} : alive[h] = IF h \in held THEN 1 ELSE 0
       /\ alive["context"] = reopened + (IF "context" \in held THEN 1 ELSE 0)
       /\ alive["lock"] <= reopened + (IF "context" \in held THEN 1 ELSE 0)
       /\ "lock" \notin held => alive["lock"] = 0
  /\ ClosedIsClean

\* Opening, with or without success, and closing.
LEMMA OpenCloseObjects ==
  ASSUME DecoderInv, HandlesInv, nvenc_decode_init \/ nvenc_decode_close
  PROVE  HandlesInv'
<1>1. /\ DecoderTypeOK /\ reopened' = reopened /\ held \subseteq Handles
      /\ reopened \in Nat /\ \A h \in Handles : alive[h] \in Nat
  BY DEF DecoderInv, DecoderTypeOK, nvenc_decode_init, nvenc_decode_close
<1>2. CASE nvenc_decode_init
  <2>1. PICK ok \in BOOLEAN, n \in 0..3 :
          LET made == nvenc_dyload_cuda(ok) \cup {InitSteps[i] : i \in 1..n} IN
          /\ phase' = IF n = 3 THEN "idle" ELSE "closed"
          /\ held' = IF n = 3 THEN made ELSE made \ Resets
          /\ alive' = Created(IF n = 3 THEN made ELSE made \ Closes)
    BY <1>2 DEF nvenc_decode_init, InitSteps
  <2> DEFINE made == nvenc_dyload_cuda(ok) \cup {InitSteps[i] : i \in 1..n}
             kept == IF n = 3 THEN made ELSE made \ Closes
  <2>2. made \subseteq {"cuda_lib", "dec_lib", "parser", "bsf"}
    BY DEF nvenc_dyload_cuda, InitSteps
  <2>3. /\ phase' = IF n = 3 THEN "idle" ELSE "closed"
        /\ held' = IF n = 3 THEN made ELSE made \ Resets
        /\ alive' = Created(kept)
    BY <2>1
  <2> HIDE DEF made
  <2>4. /\ kept \in SUBSET Handles /\ "lock" \notin kept /\ "context" \notin kept
        /\ phase' # "closed" => kept = held'
        /\ phase' = "closed" => /\ kept \subseteq {"cuda_lib"}
                                /\ held' \subseteq {"cuda_lib", "dec_lib", "bsf"}
    BY <2>2, <2>3 DEF Handles, Closes, Resets
  <2> HIDE DEF kept
  <2>5. reopened = 0 /\ \A h \in Handles : alive[h] = 0
    <3>1. phase = "new" /\ held = {} /\ reopened = 0
      BY <1>2 DEF HandlesInv, nvenc_decode_init
    <3> QED BY <1>1, <3>1 DEF HandlesInv
  <2>6. \A h \in Handles : alive'[h] = IF h \in kept THEN 1 ELSE 0
    BY <1>1, <2>3, <2>4, <2>5, AliveIs
  <2>7. alive'["lock"] = 0 /\ alive'["context"] = 0 /\ phase' \in {"idle", "closed"}
    BY <2>3, <2>4, <2>6 DEF Handles
  <2>8. ClosedIsClean'
    BY <1>1, <2>4, <2>5, <2>6, <2>7 DEF ClosedIsClean
  <2> QED BY <1>1, <2>4, <2>5, <2>6, <2>7, <2>8 DEF HandlesInv
<1>3. CASE nvenc_decode_close
  <2>1. /\ phase = "idle" /\ phase' = "closed" /\ held' = held \ Resets
        /\ alive' = Destroyed(held \cap Closes)
    BY <1>3 DEF nvenc_decode_close
  <2>2. held' \subseteq {"cuda_lib", "dec_lib", "bsf"}
    BY <1>1, <2>1 DEF Closes, Resets, Handles
  <2>3. \A h \in Closes : alive'[h] = IF h \in held THEN alive[h] - 1 ELSE alive[h]
    BY <1>1, <2>1, AliveIs DEF Closes
  <2>4. \A h \in Handles \ {"cuda_lib", "context", "lock"} : alive'[h] = 0
    BY <2>1, <2>3 DEF HandlesInv, Closes
  <2>5. "lock" \in Closes /\ "context" \in Closes /\ alive["lock"] \in Nat
    BY <1>1 DEF Closes, Handles
  <2>6. alive'["context"] = reopened /\ alive'["lock"] <= reopened
    <3>1. /\ alive["context"] = reopened + (IF "context" \in held THEN 1 ELSE 0)
          /\ alive["lock"] <= reopened + (IF "context" \in held THEN 1 ELSE 0)
          /\ "lock" \notin held => alive["lock"] = 0
      BY <2>1 DEF HandlesInv
    <3>2. /\ alive'["context"] = IF "context" \in held THEN alive["context"] - 1 ELSE alive["context"]
          /\ alive'["lock"] = IF "lock" \in held THEN alive["lock"] - 1 ELSE alive["lock"]
      BY <2>3, <2>5, Zenon
    <3> QED BY <1>1, <2>5, <3>1, <3>2
  <2>7. ClosedIsClean'
    BY <1>1, <2>2, <2>4, <2>6 DEF ClosedIsClean
  <2> QED BY <2>1, <2>7 DEF HandlesInv
<1> QED BY <1>2, <1>3

\* nvenc_open_decoder runs without a decoder, and counts a context that it
\* leaves behind.
LEMMA OpenDecoderObjects ==
  ASSUME DecoderTypeOK, HandlesInv, phase = "parse", phase' = phase, "decoder" \notin held,
         NEW w, NEW made \in Openings, nvenc_open_decoder(w, made)
  PROVE  HandlesInv'
<1>1. /\ held' = (held \ {"context"}) \cup made /\ alive' = Created(made)
      /\ reopened' = reopened + IF "context" \in held THEN 1 ELSE 0
      /\ reopened \in Nat /\ \A h \in Handles : alive[h] \in Nat
  BY DEF nvenc_open_decoder, DecoderTypeOK
<1>2. /\ made \subseteq {"context", "lock", "decoder"} /\ made \in SUBSET Handles
      /\ "lock" \in made => "context" \in made
  BY DEF Openings, Handles
<1>3. \A h \in Handles : alive'[h] = IF h \in made THEN alive[h] + 1 ELSE alive[h]
  BY <1>1, <1>2, AliveIs
<1>4. \A h \in Handles \ {"context", "lock"} : alive'[h] = IF h \in held' THEN 1 ELSE 0
  <2> TAKE h \in Handles \ {"context", "lock"}
  <2>1. alive[h] = IF h \in held THEN 1 ELSE 0
    BY DEF HandlesInv
  <2>2. h \in held' <=> h \in held \/ h \in made
    BY <1>1
  <2>3. h \in made => h \notin held
    BY <1>2
  <2> QED BY <1>3, <2>1, <2>2, <2>3
<1>5. "context" \in Handles /\ "lock" \in Handles
  BY DEF Handles
<1>6. /\ alive["context"] = reopened + (IF "context" \in held THEN 1 ELSE 0)
      /\ alive["lock"] <= reopened + (IF "context" \in held THEN 1 ELSE 0)
      /\ "lock" \notin held => alive["lock"] = 0
  BY DEF HandlesInv
<1>7. /\ "context" \in held' <=> "context" \in made
      /\ "lock" \in held' <=> "lock" \in held \/ "lock" \in made
  BY <1>1
<1>8. /\ alive'["context"] = reopened' + (IF "context" \in held' THEN 1 ELSE 0)
      /\ alive'["lock"] <= reopened' + (IF "context" \in held' THEN 1 ELSE 0)
      /\ "lock" \notin held' => alive'["lock"] = 0
  BY <1>1, <1>2, <1>3, <1>5, <1>6, <1>7
<1> QED BY <1>4, <1>8 DEF HandlesInv, ClosedIsClean

\* The host memory is allocated when there is none.
LEMMA HostObjects ==
  ASSUME DecoderInv, HandlesInv, NEW p \in pending, NEW hostOk \in BOOLEAN, NEW memOk \in BOOLEAN,
         HandlePictureDisplay(p, hostOk, memOk)
  PROVE  HandlesInv'
<1>1. /\ phase = "parse" /\ phase' \in {"parse", "enqueue"} /\ reopened' = reopened
      /\ \/ held' = held /\ alive' = alive
         \/ "host" \notin held /\ held' = held \cup {"host"} /\ alive' = Created({"host"})
  BY DEF HandlePictureDisplay
<1>2. CASE held' = held /\ alive' = alive
  BY <1>1, <1>2 DEF HandlesInv, ClosedIsClean
<1>3. CASE "host" \notin held /\ held' = held \cup {"host"} /\ alive' = Created({"host"})
  <2>1. DecoderTypeOK /\ {"host"} \in SUBSET Handles
    BY DEF DecoderInv, Handles
  <2>2. \A h \in Handles : alive'[h] = IF h \in {"host"} THEN alive[h] + 1 ELSE alive[h]
    BY <1>3, <2>1, AliveIs
  <2>3. \A h \in Handles \ {"context", "lock"} : alive'[h] = IF h \in held' THEN 1 ELSE 0
    BY <1>1, <1>3, <2>2 DEF HandlesInv
  <2>4. /\ alive'["context"] = alive["context"] /\ alive'["lock"] = alive["lock"]
        /\ "context" \in held' <=> "context" \in held
        /\ "lock" \in held' <=> "lock" \in held
    BY <1>3, <2>2 DEF Handles
  <2> QED BY <1>1, <2>3, <2>4 DEF HandlesInv, ClosedIsClean
<1> QED BY <1>1, <1>2, <1>3

\* After nvenc_decode_close, or a failed nvenc_decode_init, there is the CUDA
\* library, one context for each time that the decoder was opened over
\* another, and no more locks than contexts.
THEOREM CloseIsClean == DecoderSpec => []ClosedIsClean
<1>1. DecoderInit => HandlesInv
  BY DEF DecoderInit, HandlesInv, ClosedIsClean, Handles
<1>2. DecoderInv /\ HandlesInv /\ [DecoderNext]_dvars => HandlesInv'
  <2> SUFFICES ASSUME DecoderInv, HandlesInv, [DecoderNext]_dvars PROVE HandlesInv'
    OBVIOUS
  <2>1. CASE nvenc_decode_init \/ nvenc_decode_close
    BY <2>1, OpenCloseObjects
  <2>2. CASE /\ UNCHANGED handles
             /\ \/ phase' = phase
                \/ phase # "closed" /\ phase' \in {"idle", "parse", "wait", "enqueue"}
    BY <2>2 DEF HandlesInv, ClosedIsClean, handles
  <2>3. CASE \E w \in Widths : HandleVideoSequence(w)
    <3>1. PICK w \in Widths : HandleVideoSequence(w)
      BY <2>3
    <3>2. phase = "parse" /\ phase' = phase /\ DecoderTypeOK
      BY <3>1 DEF HandleVideoSequence, DecoderInv
    <3>3. CASE UNCHANGED handles
      BY <2>2, <3>2, <3>3
    <3>4. CASE "decoder" \notin held /\ \E made \in Openings : nvenc_open_decoder(w, made)
      BY <3>2, <3>4, OpenDecoderObjects
    <3> QED BY <3>1, <3>3, <3>4 DEF HandleVideoSequence
  <2>4. CASE \E p \in pending, hostOk, memOk \in BOOLEAN : HandlePictureDisplay(p, hostOk, memOk)
    BY <2>4, HostObjects
  <2>5. CASE \E full \in BOOLEAN : nvenc_decode_frame(full)
    <3>1. UNCHANGED handles /\ phase = "idle" /\ phase' \in {"idle", "parse"}
      BY <2>5 DEF nvenc_decode_frame
    <3> QED BY <2>2, <3>1
  <2>6. CASE ParserSkips \/ (\E s \in Surfaces : HandlePictureDecode(s)) \/ PictureAvailable
             \/ frame_enqueue \/ ParserReturns
    <3>1. UNCHANGED handles /\ phase # "closed" /\ phase' \in {"idle", "parse", "wait"}
      BY <2>6 DEF ParserSkips, HandlePictureDecode, PictureAvailable, frame_enqueue, ParserReturns
    <3> QED BY <2>2, <3>1
  <2>7. CASE UNCHANGED dvars
    BY <2>2, <2>7 DEF dvars
  <2> QED BY <2>1, <2>3, <2>4, <2>5, <2>6, <2>7 DEF DecoderNext, Inside
<1>3. HandlesInv => ClosedIsClean
  BY DEF HandlesInv
<1> QED BY <1>1, <1>2, <1>3, DecoderInvariant, PTL DEF DecoderSpec
-----------------------------------------------------------------------------
\* Where packet n is: queued or given out, held by the parser or by a
\* callback, given up, or still being parsed.
Placed(n) ==
  \/ \E i \in 1..Len(shown) : shown[i] = n
  \/ \E p \in pending \cup cur : p.pts = n
  \/ n \in lost
  \/ todo # "nothing" /\ n = stamp

\* Every packet given to the decoder is somewhere, and nothing else is; when
\* an empty packet brought no frame, none is queued.
AccountInv ==
  /\ \A n \in Nat \ {0} : n \in 1..packets <=> Placed(n)
  /\ drained => phase \in {"idle", "closed"} /\ aFrameQueue.count = 0

\* Between calls only a new packet, which is being parsed, is added.
LEMMA FrameAccount ==
  ASSUME DecoderInv, AccountInv, NEW full \in BOOLEAN, nvenc_decode_frame(full)
  PROVE  AccountInv'
<1>1. /\ phase = "idle" /\ UNCHANGED <<pending, cur, shown>> /\ frame_dequeue
      /\ \/ packets' = packets + 1 /\ todo' = "header" /\ drained' = FALSE /\ FillPacket
         \/ UNCHANGED <<packets, stamp, todo, phase, lost>> /\ drained' = (output' = output)
  BY DEF nvenc_decode_frame
<1>2. todo = "nothing" /\ packets \in Nat
  BY <1>1 DEF DecoderInv, DecoderTypeOK
<1>3. ASSUME NEW n \in Nat \ {0} PROVE n \in 1..packets' <=> Placed(n)'
  <2>1. n \in 1..packets <=> Placed(n)
    BY DEF AccountInv
  <2>2. CASE UNCHANGED <<packets, stamp, todo, phase, lost>>
    BY <1>1, <1>2, <2>1, <2>2 DEF Placed
  <2>3. CASE packets' = packets + 1 /\ todo' = "header" /\ FillPacket
    <3>1. CASE stamp' = packets' /\ UNCHANGED lost
      <4>1. Placed(n)' <=> Placed(n) \/ n = packets + 1
        BY <1>1, <1>2, <2>3, <3>1 DEF Placed
      <4> QED BY <1>2, <2>1, <2>3, <4>1
    <3>2. CASE stamp' \in 0..packets' /\ lost' = lost \cup {packets'}
      <4>1. Placed(n)' <=> Placed(n) \/ n = packets + 1 \/ n = stamp'
        BY <1>1, <1>2, <2>3, <3>2 DEF Placed
      <4> QED BY <1>2, <2>1, <2>3, <3>2, <4>1
    <3> QED BY <2>3, <3>1, <3>2 DEF FillPacket
  <2> QED BY <1>1, <2>2, <2>3
<1>4. ASSUME drained' PROVE phase' = "idle" /\ aFrameQueue'.count = 0
  <2>1. phase' = phase /\ output' = output
    BY <1>1, <1>4
  <2>2. aFrameQueue.count \in Nat /\ output \in Seq(0..MaxPackets)
        /\ (aFrameQueue.count > 0 => have_decoded_frames)
    BY DEF DecoderInv, DecoderTypeOK, Rings
  <2>3. aFrameQueue.count = 0
    <3> SUFFICES ASSUME aFrameQueue.count > 0 PROVE FALSE
      BY <2>2
    <3>1. output' = Append(output, Front(aFrameQueue))
      BY <1>1, <2>2 DEF frame_dequeue
    <3>2. Len(output') = Len(output) + 1
      BY <2>2, <3>1
    <3>3. Len(output) \in Nat
      BY <2>2, LenProperties
    <3> QED BY <2>1, <3>2, <3>3
  <2>4. aFrameQueue' = aFrameQueue
    BY <1>1, <2>3 DEF frame_dequeue
  <2> QED BY <1>1, <2>1, <2>3, <2>4
<1> QED BY <1>3, <1>4 DEF AccountInv

\* Inside a call a packet moves from one place to the next and never leaves
\* them.
LEMMA InsideAccount ==
  ASSUME DecoderInv, AccountInv, Inside
  PROVE  AccountInv'
<1>1. /\ packets \in Nat /\ shown \in Seq(0..MaxPackets) /\ pending \subseteq Pictures
      /\ phase \in {"parse", "wait", "enqueue"}
      /\ packets' = packets /\ drained' = drained /\ ~drained
  <2>1. /\ phase \in {"parse", "wait", "enqueue"}
        /\ packets' = packets /\ drained' = drained
    <3>1. CASE \/ ParserSkips \/ PictureAvailable \/ frame_enqueue \/ ParserReturns
               \/ \E w \in Widths : HandleVideoSequence(w)
      BY <3>1, Zenon DEF ParserSkips, PictureAvailable, frame_enqueue, ParserReturns,
         HandleVideoSequence, parser, records
    <3>2. CASE \E s \in Surfaces : HandlePictureDecode(s)
      BY <3>2, Zenon DEF HandlePictureDecode, records
    <3>3. CASE \E p \in pending, hostOk, memOk \in BOOLEAN : HandlePictureDisplay(p, hostOk, memOk)
      BY <3>3, Zenon DEF HandlePictureDisplay
    <3> QED BY <3>1, <3>2, <3>3, Zenon DEF Inside
  <2>2. ~drained
    BY <2>1 DEF AccountInv
  <2> QED BY <2>1, <2>2 DEF DecoderInv, DecoderTypeOK
<1>2. ASSUME NEW n \in Nat \ {0} PROVE Placed(n)' <=> Placed(n)
  <2>1. CASE ParserSkips \/ \E w \in Widths : HandleVideoSequence(w)
    BY <2>1 DEF ParserSkips, HandleVideoSequence, Placed
  <2>2. CASE \E s \in Surfaces : HandlePictureDecode(s)
    <3>1. PICK s \in Surfaces : HandlePictureDecode(s)
      BY <2>2
    <3> DEFINE p == [surface |-> s, pts |-> stamp]
    <3>2. /\ todo # "nothing" /\ todo' = "nothing" /\ UNCHANGED <<packets, stamp, lost, shown>>
          /\ \/ cur' = {p} /\ pending' = pending
             \/ pending' = pending \cup {p} /\ cur' = cur
      BY <3>1 DEF HandlePictureDecode, records
    <3>3. phase = "parse" /\ cur = {} /\ p.pts = stamp
      BY <3>1 DEF HandlePictureDecode, DecoderInv
    <3> HIDE DEF p
    <3>4. pending' \cup cur' = (pending \cup cur) \cup {p}
      BY <3>2, <3>3
    <3>5. (\E r \in pending' \cup cur' : r.pts = n)
            <=> (\E r \in pending \cup cur : r.pts = n) \/ n = stamp
      BY <3>3, <3>4
    <3> QED BY <3>2, <3>5 DEF Placed
  <2>3. CASE PictureAvailable
    <3>1. /\ pending' \cup cur' = pending \cup cur
          /\ UNCHANGED <<packets, stamp, todo, lost, shown>>
      BY <2>3 DEF PictureAvailable, records
    <3> QED BY <3>1 DEF Placed
  <2>4. CASE \E p \in pending, hostOk, memOk \in BOOLEAN : HandlePictureDisplay(p, hostOk, memOk)
    <3>1. PICK p \in pending, hostOk \in BOOLEAN, memOk \in BOOLEAN :
            HandlePictureDisplay(p, hostOk, memOk)
      BY <2>4
    <3>2. PICK s : /\ pending' = pending \ {p} /\ UNCHANGED <<packets, stamp, todo, shown>>
                   /\ \/ cur' = {[surface |-> s, pts |-> p.pts]} /\ lost' = lost
                      \/ cur' = cur /\ lost' = lost \cup {p.pts}
      BY <3>1 DEF HandlePictureDisplay
    <3>3. cur = {}
      BY <3>1 DEF HandlePictureDisplay, DecoderInv
    <3>4. CASE cur' = {[surface |-> s, pts |-> p.pts]} /\ lost' = lost
      <4>1. (\E r \in cur' : r.pts = n) <=> p.pts = n
        BY <3>4
      <4> QED BY <3>2, <3>3, <3>4, <4>1 DEF Placed
    <3>5. CASE cur' = cur /\ lost' = lost \cup {p.pts}
      <4>1. n \in lost' <=> n \in lost \/ p.pts = n
        BY <3>5
      <4> QED BY <3>2, <3>3, <3>5, <4>1 DEF Placed
    <3> QED BY <3>2, <3>4, <3>5
  <2>5. CASE frame_enqueue
    <3>1. PICK p \in cur : shown' = Append(shown, p.pts)
      BY <2>5 DEF frame_enqueue
    <3>2. cur = {p} /\ p \in Pictures /\ cur' = {} /\ UNCHANGED <<parser, lost>>
      BY <2>5, <3>1 DEF frame_enqueue, DecoderInv
    <3>3. /\ Len(shown') = Len(shown) + 1 /\ Len(shown) \in Nat
          /\ shown'[Len(shown) + 1] = p.pts
          /\ \A i \in 1..Len(shown) : shown'[i] = shown[i]
      BY <1>1, <3>1, <3>2, AppendProperties, LenProperties DEF Pictures
    <3>4. (\E i \in 1..Len(shown') : shown'[i] = n)
            <=> (\E i \in 1..Len(shown) : shown[i] = n) \/ p.pts = n
      <4>1. 1..Len(shown') = (1..Len(shown)) \cup {Len(shown) + 1}
        BY <3>3
      <4> QED BY <3>3, <4>1
    <3> QED BY <3>2, <3>4 DEF Placed, parser
  <2>6. CASE ParserReturns
    BY <2>6 DEF ParserReturns, Placed, parser, records
  <2> QED BY <2>1, <2>2, <2>3, <2>4, <2>5, <2>6 DEF Inside
<1> QED BY <1>1, <1>2 DEF AccountInv

\* When an empty packet brings no frame, every packet was given out as a
\* frame, is one of at most Delay that the parser holds, or was given up.
THEOREM DrainedComplete == DecoderSpec => []DrainComplete
<1>1. DecoderInit => AccountInv
  BY DEF DecoderInit, AccountInv, Placed
<1>2. DecoderInv /\ AccountInv /\ [DecoderNext]_dvars => AccountInv'
  <2> SUFFICES ASSUME DecoderInv, AccountInv, [DecoderNext]_dvars PROVE AccountInv'
    OBVIOUS
  <2>1. CASE \E full \in BOOLEAN : nvenc_decode_frame(full)
    BY <2>1, FrameAccount
  <2>2. CASE Inside
    BY <2>2, InsideAccount
  <2>3. CASE nvenc_decode_init \/ nvenc_decode_close \/ UNCHANGED dvars
    <3>1. /\ UNCHANGED <<packets, stamp, todo, pending, cur, aFrameQueue, lost, shown, drained>>
          /\ phase' = phase \/ phase = "new" \/ phase' = "closed"
      BY <2>3 DEF nvenc_decode_init, nvenc_decode_close, dvars, parser, queues, records
    <3>2. \A n \in Nat \ {0} : Placed(n)' <=> Placed(n)
      BY <3>1 DEF Placed
    <3> QED BY <3>1, <3>2 DEF AccountInv
  <2> QED BY <2>1, <2>2, <2>3 DEF DecoderNext
<1>3. DecoderInv /\ AccountInv => DrainComplete
  <2> SUFFICES ASSUME DecoderInv, AccountInv, drained
               PROVE  /\ output = shown /\ Cardinality(pending) <= Delay
                      /\ 1..packets = ({output[i] : i \in 1..Len(output)}
                                         \cup {p.pts : p \in pending} \cup lost) \ {0}
    BY DEF DrainComplete
  <2>1. phase \in {"idle", "closed"} /\ aFrameQueue.count = 0
    BY DEF AccountInv
  <2>2. Cardinality(pending) <= Delay /\ cur = {} /\ todo = "nothing"
    BY <2>1 DEF DecoderInv
  <2>3. /\ output \in Seq(0..MaxPackets) /\ aFrameQueue \in Rings(0..MaxPackets)
        /\ lost \subseteq 0..MaxPackets /\ pending \subseteq Pictures
        /\ shown \in Seq(0..MaxPackets) /\ packets \in Nat
    BY DEF DecoderInv, DecoderTypeOK
  <2>4. output = shown
    <3>1. Contents(aFrameQueue) = <<>>
      <4>1. Contents(aFrameQueue) \in Seq((0..MaxPackets) \cup {0})
            /\ Len(Contents(aFrameQueue)) = 0
        BY <2>1, <2>3, ContentsSeq
      <4> QED BY <4>1, EmptySeq
    <3>2. output \o <<>> = output
      BY <2>3, ConcatEmptySeq
    <3> QED BY <3>1, <3>2 DEF DecoderInv, OutputInOrder
  <2> DEFINE Places == {output[i] : i \in 1..Len(output)} \cup {p.pts : p \in pending} \cup lost
  <2>5. \A n \in Nat \ {0} : n \in 1..packets <=> n \in Places
    BY <2>2, <2>4 DEF AccountInv, Placed
  <2>6. Places \subseteq Nat
    <3>1. \A i \in 1..Len(output) : output[i] \in Nat
      <4>1. \A i \in 1..Len(output) : output[i] \in 0..MaxPackets
        BY <2>3, ElementOfSeq
      <4> QED BY <4>1
    <3>2. \A p \in pending : p.pts \in Nat
      BY <2>3 DEF Pictures
    <3>3. lost \subseteq Nat
      BY <2>3
    <3> QED BY <3>1, <3>2, <3>3
  <2> HIDE DEF Places
  <2>7. 1..packets \subseteq Nat \ {0}
    OBVIOUS
  <2>8. 1..packets = Places \ {0}
    BY <2>5, <2>6, <2>7
  <2> QED BY <2>2, <2>4, <2>8 DEF Places
<1> QED BY <1>1, <1>2, <1>3, DecoderInvariant, PTL DEF DecoderSpec
=============================================================================
