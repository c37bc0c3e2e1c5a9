------------------------- MODULE SmemDevicesProofs -------------------------
(***************************************************************************)
(* Proofs about SmemDevices, for any buffers, streams, durations and       *)
(* length of the queue: the rebuilt timestamps never go backwards, and     *)
(* each buffer is in one place until it is given back.                     *)
(***************************************************************************)
EXTENDS SmemDevices, SequenceTheorems, TLAPS

\* A buffer of the demuxer is in one place.
Apart ==
  /\ IsInjective(queue)
  /\ \A b \in reading : b \notin ToSet(queue) /\ b \notin packets
  /\ \A b \in packets : b \notin ToSet(queue)
  /\ \A x, y \in writing : x = y
  /\ \A x, y \in reading : x = y

\* The server has no buffer free that a device still has.
NoneFree == \A id \in Held : state[id] # "free"

\* The inductive invariant of the buffers: DataIntact and NothingForgotten
\* rest on the two facts above, since giving back one of two references would
\* free the other.
BuffersInv ==
  /\ DevicesTypeOK
  /\ writing # {} => frames < MaxFrames
  /\ Apart /\ NoneFree /\ DataIntact /\ NothingForgotten
-----------------------------------------------------------------------------
\* Taking the first element of a queue without repetitions.
LEMMA TailOf ==
  ASSUME NEW S, NEW q \in Seq(S), q # <<>>, IsInjective(q)
  PROVE  /\ Tail(q) \in Seq(S) /\ Len(Tail(q)) = Len(q) - 1 /\ Head(q) \in S
         /\ IsInjective(Tail(q))
         /\ Head(q) \notin ToSet(Tail(q))
         /\ ToSet(q) = {Head(q)} \cup ToSet(Tail(q))
<1>1. /\ Len(q) \in Nat \ {0} /\ DOMAIN q = 1..Len(q) /\ Head(q) = q[1]
      /\ q \in [1..Len(q) -> S]
  BY EmptySeq, LenProperties
<1>2. /\ Tail(q) \in Seq(S) /\ Len(Tail(q)) = Len(q) - 1
      /\ DOMAIN Tail(q) = 1..(Len(q) - 1)
      /\ \A i \in 1..(Len(q) - 1) : Tail(q)[i] = q[i + 1]
  BY <1>1, HeadTailProperties, LenProperties
<1>3. IsInjective(Tail(q))
  BY <1>1, <1>2 DEF IsInjective
<1>4. Head(q) \notin ToSet(Tail(q))
  BY <1>1, <1>2 DEF IsInjective, ToSet
<1>5. ASSUME NEW x \in ToSet(q) PROVE x \in {Head(q)} \cup ToSet(Tail(q))
  <2>1. PICK i \in 1..Len(q) : x = q[i]
    BY <1>1 DEF ToSet
  <2>2. CASE i = 1
    BY <1>1, <2>1, <2>2
  <2>3. CASE i # 1
    <3>1. i - 1 \in 1..(Len(q) - 1) /\ Tail(q)[i - 1] = x
      BY <1>1, <1>2, <2>1, <2>3
    <3> QED BY <1>2, <3>1 DEF ToSet
  <2> QED BY <2>2, <2>3
<1>6. ASSUME NEW x \in {Head(q)} \cup ToSet(Tail(q)) PROVE x \in ToSet(q)
  BY <1>1, <1>2 DEF ToSet
<1> QED BY <1>1, <1>2, <1>3, <1>4, <1>5, <1>6

\* Appending an element that is not in the queue.
LEMMA AppendTo ==
  ASSUME NEW S, NEW q \in Seq(S), NEW x \in S, IsInjective(q), x \notin ToSet(q)
  PROVE  /\ Append(q, x) \in Seq(S) /\ Len(Append(q, x)) = Len(q) + 1
         /\ IsInjective(Append(q, x))
         /\ ToSet(Append(q, x)) = ToSet(q) \cup {x}
<1>1. Len(q) \in Nat /\ DOMAIN q = 1..Len(q)
  BY LenProperties
<1>2. /\ Append(q, x) \in Seq(S) /\ Len(Append(q, x)) = Len(q) + 1
      /\ DOMAIN Append(q, x) = 1..(Len(q) + 1)
      /\ \A i \in 1..Len(q) : Append(q, x)[i] = q[i]
      /\ Append(q, x)[Len(q) + 1] = x
  BY <1>1, AppendProperties, LenProperties
<1>3. IsInjective(Append(q, x))
  <2>1. ASSUME NEW i \in 1..(Len(q) + 1), NEW j \in 1..(Len(q) + 1),
               Append(q, x)[i] = Append(q, x)[j]
        PROVE  i = j
    <3>1. CASE i \in 1..Len(q) /\ j \in 1..Len(q)
      BY <1>1, <1>2, <2>1, <3>1 DEF IsInjective
    <3>2. CASE i = Len(q) + 1 /\ j \in 1..Len(q)
      BY <1>1, <1>2, <2>1, <3>2 DEF ToSet
    <3>3. CASE j = Len(q) + 1 /\ i \in 1..Len(q)
      BY <1>1, <1>2, <2>1, <3>3 DEF ToSet
    <3> QED BY <1>1, <3>1, <3>2, <3>3
  <2> QED BY <1>2, <2>1 DEF IsInjective
<1>4. ASSUME NEW y \in ToSet(Append(q, x)) PROVE y \in ToSet(q) \cup {x}
  <2>1. PICK i \in 1..(Len(q) + 1) : y = Append(q, x)[i]
    BY <1>2 DEF ToSet
  <2> QED BY <1>1, <1>2, <2>1 DEF ToSet
<1>5. ASSUME NEW y \in ToSet(q) \cup {x} PROVE y \in ToSet(Append(q, x))
  <2>1. CASE y = x
    BY <1>1, <1>2, <2>1 DEF ToSet
  <2>2. CASE y \in ToSet(q)
    <3>1. PICK i \in 1..Len(q) : y = q[i]
      BY <1>1, <2>2 DEF ToSet
    <3>2. i \in 1..(Len(q) + 1)
      BY <1>1, <3>1
    <3> QED BY <1>2, <3>1, <3>2 DEF ToSet
  <2> QED BY <2>1, <2>2
<1> QED BY <1>2, <1>3, <1>4, <1>5

\* The elements of a queue are those of its set.
LEMMA SetOf ==
  ASSUME NEW S, NEW q \in Seq(S)
  PROVE  ToSet(q) \subseteq S
BY LenProperties DEF ToSet
-----------------------------------------------------------------------------
\* The timestamps of a frame that is not skipped: at or after those of the
\* frame before it.
LEMMA OutForward ==
  ASSUME DevicesTypeOK, NEW f \in Frames, ~Skipped(f)
  PROVE  out_dts(f) \in Nat /\ out_dts(f) >= last_out_ts[f.index]
<1> DEFINE i == f.index
           range == RangeFactor * should_duration[i]
           clamp == ClampFactor * should_duration[i]
           d == f.dts - first_in_ts[0]
<1>1. /\ i \in Streams /\ 0 \in Streams /\ f.dts \in Nat /\ should_duration[i] \in Nat
      /\ should_duration[0] \in Nat
      /\ last_in_ts[i] \in Nat /\ last_out_ts[i] \in Nat
      /\ first_in_ts[0] \in Nat /\ last_out_ts[0] \in Nat
  <2>1. i \in Streams /\ f.dts \in 0..MaxTs
    BY DEF Frames
  <2>2. /\ last_in_ts \in [Streams -> 0..MaxTs] /\ last_out_ts \in [Streams -> Nat]
        /\ first_in_ts \in [Streams -> 0..MaxTs]
    BY DEF DevicesTypeOK
  <2> HIDE DEF i
  <2> QED BY <2>1, <2>2, DevicesConstants
<1>2. range \in Nat /\ clamp \in Nat /\ d \in Int
  BY <1>1, DevicesConstants
<1> HIDE DEF range, clamp
<1>3. CASE ~Jumps(f)
  <2>1. f.dts - last_in_ts[i] >= 0
    BY <1>1, <1>2, <1>3 DEF Jumps, SMEM_NUM_IF_OUT_RANGE, range
  <2>2. out_dts(f) = last_out_ts[i] + (f.dts - last_in_ts[i])
    BY <1>3 DEF out_dts
  <2> QED BY <1>1, <2>1, <2>2
<1>4. CASE Jumps(f) /\ i = 0
  <2>1. out_dts(f) = last_out_ts[0] + should_duration[0]
    BY <1>4 DEF out_dts
  <2> QED BY <1>1, <1>4, <2>1
<1>5. CASE Jumps(f) /\ i # 0
  <2>1. out_dts(f) = last_out_ts[0] + SMEM_NUM_IN_RANGE(d, should_duration[i], clamp)
    BY <1>5 DEF out_dts, clamp
  <2>2. SMEM_NUM_IN_RANGE(d, should_duration[i], clamp) \in Int
    BY <1>1, <1>2 DEF SMEM_NUM_IN_RANGE
  <2> HIDE DEF d
  <2>3. ~(out_dts(f) < last_out_ts[i])
    BY <1>5 DEF Skipped
  <2> QED BY <1>1, <2>1, <2>2, <2>3
<1> QED BY <1>3, <1>4, <1>5

\* rebuild_timestamp keeps the types, follows the base stream, and moves no
\* stream backwards.
LEMMA Rebuilt ==
  ASSUME DevicesTypeOK, NEW f \in Frames, rebuild_timestamp(f)
  PROVE  /\ last_in_ts' \in [Streams -> 0..MaxTs] /\ last_out_ts' \in [Streams -> Nat]
         /\ first_in_ts' \in [Streams -> 0..MaxTs] /\ base_stream_start' \in BOOLEAN
         /\ seen' \in [Streams -> 0..MaxTs]
         /\ BaseFollowed => BaseFollowed'
         /\ \A i \in Streams : last_out_ts'[i] >= last_out_ts[i]
<1>1. /\ f.index \in Streams /\ f.dts \in 0..MaxTs /\ 0 \in Streams
      /\ last_in_ts \in [Streams -> 0..MaxTs] /\ last_out_ts \in [Streams -> Nat]
      /\ first_in_ts \in [Streams -> 0..MaxTs] /\ seen \in [Streams -> 0..MaxTs]
      /\ base_stream_start \in BOOLEAN
  BY DevicesConstants DEF DevicesTypeOK, Frames
<1>2. /\ seen' = [seen EXCEPT ![f.index] = f.dts]
      /\ base_stream_start' = (base_stream_start \/ f.index = 0)
      /\ first_in_ts' \in {first_in_ts, [first_in_ts EXCEPT ![f.index] = f.dts]}
  BY DEF rebuild_timestamp
<1>3. base_stream_start' \in BOOLEAN
  BY <1>1, <1>2, Zenon
<1>4. seen' \in [Streams -> 0..MaxTs] /\ first_in_ts' \in [Streams -> 0..MaxTs]
  BY <1>1, <1>2
<1>5. CASE Skipped(f)
  <2>1. f.index # 0 /\ last_in_ts' = last_in_ts /\ last_out_ts' = last_out_ts
    BY <1>5 DEF Skipped, rebuild_timestamp
  <2> QED BY <1>1, <1>2, <1>3, <1>4, <2>1 DEF BaseFollowed
<1>6. CASE ~Skipped(f)
  <2>1. /\ last_in_ts' = [last_in_ts EXCEPT ![f.index] = f.dts]
        /\ last_out_ts' = [last_out_ts EXCEPT ![f.index] = out_dts(f)]
    BY <1>6 DEF rebuild_timestamp
  <2>2. out_dts(f) \in Nat /\ out_dts(f) >= last_out_ts[f.index]
    BY <1>6, OutForward
  <2>3. BaseFollowed => BaseFollowed'
    BY <1>1, <1>2, <2>1 DEF BaseFollowed
  <2>4. \A i \in Streams : last_out_ts'[i] >= last_out_ts[i]
    BY <1>1, <2>1, <2>2
  <2> QED BY <1>1, <1>3, <1>4, <2>1, <2>2, <2>3, <2>4
<1> QED BY <1>5, <1>6

\* The counter of dropped frames stays a bit.
LEMMA Counted ==
  ASSUME DevicesTypeOK, NEW f \in Frames, CountDrop(f)
  PROVE  free_cnt' \in [Streams -> 0..1]
<1>1. free_cnt \in [Streams -> 0..1] /\ f.index \in Streams
  BY DEF DevicesTypeOK, Frames
<1>2. if_free_frame(f) => free_cnt[f.index] = 0
  BY <1>1 DEF if_free_frame
<1> QED BY <1>1, <1>2 DEF CountDrop
-----------------------------------------------------------------------------
\* The buffers that the demuxer or the application has.
Buffs == ToSet(queue) \cup reading \cup packets

\* They and the muxer's are all that is held.
LEMMA HeldIs ==
  /\ Held = writing \cup {b.id : b \in Buffs}
  /\ Held' = writing' \cup {b.id : b \in Buffs'}
BY DEF Held, IdsOf, Buffs

\* What the invariant says of each of them.
LEMMA BuffFacts ==
  ASSUME BuffersInv
  PROVE  /\ Buffs \subseteq Buffers /\ Held \subseteq Ids
         /\ \A a \in Buffs : /\ a.id \in Ids /\ content[a.id].n = a.n
                             /\ a.id \notin writing
<1>1. queue \in Seq(Buffers) /\ reading \subseteq Buffers /\ packets \subseteq Buffers
      /\ writing \subseteq Ids
  BY DEF BuffersInv, DevicesTypeOK
<1>2. Buffs \subseteq Buffers
  BY <1>1, SetOf DEF Buffs
<1>3. \A a \in Buffs : a.id \in Ids
  BY <1>2 DEF Buffers
<1>4. Held \subseteq Ids
  BY <1>1, <1>3, HeldIs
<1>5. \A a \in Buffs : content[a.id].n = a.n /\ a.id \notin writing
  BY DEF BuffersInv, DataIntact, Buffs
<1> QED BY <1>2, <1>3, <1>4, <1>5

\* No two of them have the same id.
LEMMA OneOfId ==
  ASSUME BuffersInv, NEW a \in Buffs, NEW b \in Buffs, a.id = b.id
  PROVE  a = b
<1>1. a \in Buffers /\ b \in Buffers
  BY SetOf DEF BuffersInv, DevicesTypeOK, Buffs
<1>2. content[a.id].n = a.n /\ content[b.id].n = b.n
  BY DEF BuffersInv, DataIntact, Buffs
<1> QED BY <1>1, <1>2 DEF Buffers

\* What SMEMFREE does to the states.
LEMMA AfterGivenBack ==
  ASSUME DevicesTypeOK, NEW id \in Ids, state' = GivenBack(id)
  PROVE  /\ state' \in [Ids -> {"free", "used", "gone"}]
         /\ \A j \in Ids : j # id => state'[j] = state[j]
         /\ state'[id] # "used"
BY DEF DevicesTypeOK, GivenBack

\* A buffer leaves its place and is given back.
LEMMA BufferBack ==
  ASSUME BuffersInv, NEW b \in Buffs, state' = GivenBack(b.id),
         content' = content, writing' = writing, stranded' = stranded,
         Buffs' = Buffs \ {b}
  PROVE  /\ state' \in [Ids -> {"free", "used", "gone"}]
         /\ DataIntact' /\ NoneFree' /\ NothingForgotten'
<1>1. Buffs \subseteq Buffers /\ DevicesTypeOK
  BY SetOf DEF BuffersInv, DevicesTypeOK, Buffs
<1>2. b.id \in Ids
  BY <1>1 DEF Buffers
<1>3. /\ state' \in [Ids -> {"free", "used", "gone"}]
      /\ \A j \in Ids : j # b.id => state'[j] = state[j]
      /\ state'[b.id] # "used"
  BY <1>1, <1>2, AfterGivenBack
<1>4. DataIntact'
  BY DEF DataIntact, BuffersInv, Buffs
<1>5. \A a \in Buffs' : a.id # b.id
  BY OneOfId
<1>6. b.id \notin writing
  BY DEF BuffersInv, DataIntact, Buffs
<1>7. Held = writing \cup {a.id : a \in Buffs} /\ Held' = writing \cup {a.id : a \in Buffs \ {b}}
  BY HeldIs
<1>8. NoneFree'
  <2> SUFFICES ASSUME NEW id \in Held' PROVE state'[id] # "free"
    BY DEF NoneFree
  <2>1. id \in Held /\ id # b.id /\ id \in Ids
    BY <1>1, <1>5, <1>6, <1>7 DEF Buffers, DevicesTypeOK
  <2> QED BY <1>3, <2>1 DEF BuffersInv, NoneFree
<1>9. NothingForgotten'
  <2> SUFFICES ASSUME NEW id \in Ids, state'[id] = "used"
               PROVE  id \in Held' \cup stranded
    BY DEF NothingForgotten
  <2>1. id # b.id /\ state[id] = "used"
    BY <1>3
  <2>2. id \in Held \cup stranded
    BY <2>1 DEF BuffersInv, NothingForgotten
  <2> QED BY <1>7, <2>1, <2>2
<1> QED BY <1>3, <1>4, <1>8, <1>9

\* Buffers change their place, or leave it and are given up.
LEMMA BufferLeft ==
  ASSUME BuffersInv, Buffs' \subseteq Buffs, state' = state,
         content' = content, writing' = writing, stranded \subseteq stranded',
         \A b \in Buffs \ Buffs' : state[b.id] = "used" => b.id \in stranded'
  PROVE  DataIntact' /\ NoneFree' /\ NothingForgotten'
<1>1. DataIntact'
  BY DEF DataIntact, BuffersInv, Buffs
<1>2. Held = writing \cup {a.id : a \in Buffs} /\ Held' = writing \cup {a.id : a \in Buffs'}
  BY HeldIs
<1>3. NoneFree'
  BY <1>2 DEF NoneFree, BuffersInv
<1>4. NothingForgotten'
  <2> SUFFICES ASSUME NEW id \in Ids, state[id] = "used"
               PROVE  id \in Held' \cup stranded'
    BY DEF NothingForgotten
  <2>1. id \in Held \cup stranded
    BY DEF BuffersInv, NothingForgotten
  <2>2. CASE id \in stranded \cup writing
    BY <1>2, <2>2
  <2>3. CASE \E a \in Buffs : a.id = id
    BY <1>2, <2>3
  <2> QED BY <1>2, <2>1, <2>2, <2>3
<1> QED BY <1>1, <1>3, <1>4
-----------------------------------------------------------------------------
\* The server removes a buffer for its age: it is no longer used, whoever has it.
LEMMA ExpireKeeps ==
  ASSUME BuffersInv, NEW id \in Ids, Expire(id)
  PROVE  BuffersInv'
<1>1. /\ state' = [state EXCEPT ![id] = "gone"] /\ stranded' = stranded \ {id}
      /\ UNCHANGED <<content, muxer, queue, demux, reading, packets, stamps, free_cnt>>
  BY DEF Expire
<1>2. Buffs' = Buffs /\ writing' = writing /\ Held' = Held
  BY <1>1, HeldIs DEF muxer, Buffs
<1>3. DevicesTypeOK'
  BY <1>1 DEF BuffersInv, DevicesTypeOK, muxer, stamps
<1>4. Apart' /\ DataIntact' /\ (writing' # {} => frames' < MaxFrames)
  BY <1>1 DEF BuffersInv, Apart, DataIntact, muxer
<1>5. state \in [Ids -> {"free", "used", "gone"}] /\ Held \subseteq Ids
  BY BuffFacts DEF BuffersInv, DevicesTypeOK
<1>6. NoneFree'
  BY <1>1, <1>2, <1>5 DEF BuffersInv, NoneFree
<1>7. NothingForgotten'
  BY <1>1, <1>2, <1>5 DEF BuffersInv, NothingForgotten
<1> QED BY <1>3, <1>4, <1>6, <1>7 DEF BuffersInv

\* SMEMGET gives the muxer a buffer that no device has.
LEMMA WriteKeeps ==
  ASSUME BuffersInv, NEW id \in Ids, NEW attached \in BOOLEAN,
         ff_smem_write_packet(id, attached)
  PROVE  BuffersInv'
<1>1. /\ writing = {} /\ frames < MaxFrames
      /\ state' = [state EXCEPT ![id] = "used"]
      /\ \/ writing' = {id} /\ stranded' = stranded
         \/ writing' = {} /\ stranded' = stranded \cup {id}
      /\ UNCHANGED <<content, frames, queue, demux, reading, packets, stamps, free_cnt>>
  BY DEF ff_smem_write_packet
<1>2. id \notin Held
  BY DEF ff_smem_write_packet, BuffersInv, NoneFree
<1>3. /\ state \in [Ids -> {"free", "used", "gone"}] /\ Held \subseteq Ids
      /\ Buffs' = Buffs /\ Held' = writing' \cup {b.id : b \in Buffs}
      /\ Held = {b.id : b \in Buffs}
  <2>1. state \in [Ids -> {"free", "used", "gone"}] /\ Held \subseteq Ids
    BY BuffFacts DEF BuffersInv, DevicesTypeOK
  <2>2. Buffs' = Buffs
    BY <1>1 DEF Buffs
  <2> QED BY <1>1, <2>1, <2>2, HeldIs
<1>4. DevicesTypeOK'
  BY <1>1 DEF BuffersInv, DevicesTypeOK, stamps
<1>5. Apart' /\ (writing' # {} => frames' < MaxFrames)
  BY <1>1 DEF BuffersInv, Apart
<1>6. DataIntact'
  BY <1>1, <1>2, <1>3 DEF BuffersInv, DataIntact, Buffs
<1>7. NoneFree'
  BY <1>1, <1>3 DEF BuffersInv, NoneFree
<1>8. NothingForgotten'
  BY <1>1, <1>3 DEF BuffersInv, NothingForgotten
<1> QED BY <1>4, <1>5, <1>6, <1>7, <1>8 DEF BuffersInv

\* The muxer fills its buffer, which nobody reads, and passes it on.
LEMMA PublishKeeps ==
  ASSUME BuffersInv, NEW i \in Streams, NEW dts \in 0..MaxTs, NEW detached \in BOOLEAN,
         write_and_publish(i, dts, detached)
  PROVE  BuffersInv'
<1> DEFINE received == /\ detached /\ demux \notin {"new", "closed"}
                       /\ Len(queue) < MaxQueue - 1
           f == [n |-> frames + 1, index |-> i, dts |-> dts]
<1>1. PICK id \in writing :
        /\ frames' = frames + 1 /\ writing' = {}
        /\ content' = [content EXCEPT ![id] = f]
        /\ queue' = IF received THEN Append(queue, [id |-> id, n |-> frames + 1]) ELSE queue
        /\ state' = IF detached /\ ~received THEN GivenBack(id) ELSE state
        /\ stranded' = IF detached \/ state[id] # "used" THEN stranded ELSE stranded \cup {id}
        /\ UNCHANGED <<demux, reading, packets, stamps, free_cnt>>
  BY DEF write_and_publish
<1> DEFINE b == [id |-> id, n |-> frames + 1]
<1>2. /\ DevicesTypeOK /\ Apart /\ NoneFree /\ DataIntact /\ NothingForgotten
      /\ frames \in Nat /\ frames + 1 \in 1..MaxFrames /\ id \in Ids /\ writing = {id}
      /\ MaxQueue \in Nat
  <2>1. /\ DevicesTypeOK /\ Apart /\ NoneFree /\ DataIntact /\ NothingForgotten
        /\ frames < MaxFrames
    BY DEF BuffersInv
  <2>2. frames \in 0..MaxFrames /\ writing \subseteq Ids
    BY <2>1 DEF DevicesTypeOK
  <2>3. writing = {id}
    BY <2>1 DEF Apart
  <2>4. frames \in Nat /\ frames + 1 \in 1..MaxFrames
    BY <2>1, <2>2, DevicesConstants
  <2> QED BY <2>1, <2>2, <2>3, <2>4, DevicesConstants
<1>3. f \in Frames /\ b \in Buffers
  BY <1>2 DEF Frames, Buffers
<1>4. /\ Buffs \subseteq Buffers /\ content \in [Ids -> Frames] /\ queue \in Seq(Buffers)
      /\ state \in [Ids -> {"free", "used", "gone"}]
      /\ \A a \in Buffs : a.id # id /\ a.id \in Ids /\ content[a.id].n = a.n
  BY <1>2, BuffFacts DEF DevicesTypeOK
<1>5. b \notin Buffs
  BY <1>4
<1>6. /\ queue' \in Seq(Buffers) /\ Len(queue') < MaxQueue /\ IsInjective(queue')
      /\ ToSet(queue') = IF received THEN ToSet(queue) \cup {b} ELSE ToSet(queue)
  <2>1. CASE received
    <3>1. IsInjective(queue) /\ b \notin ToSet(queue) /\ Len(queue) \in Nat
      BY <1>2, <1>4, <1>5, LenProperties DEF Apart, Buffs
    <3>2. queue' = Append(queue, b) /\ Len(queue) < MaxQueue - 1
      BY <1>1, <2>1
    <3> HIDE DEF b
    <3>3. /\ queue' \in Seq(Buffers) /\ Len(queue') = Len(queue) + 1
          /\ IsInjective(queue') /\ ToSet(queue') = ToSet(queue) \cup {b}
      BY <1>3, <1>4, <3>1, <3>2, AppendTo
    <3> QED BY <1>2, <2>1, <3>1, <3>2, <3>3
  <2>2. CASE ~received
    BY <1>1, <1>2, <2>2 DEF DevicesTypeOK, Apart
  <2> QED BY <2>1, <2>2
<1>7. Buffs' = IF received THEN Buffs \cup {b} ELSE Buffs
  BY <1>1, <1>6 DEF Buffs
<1>8. /\ state' \in [Ids -> {"free", "used", "gone"}]
      /\ \A j \in Ids : j # id => state'[j] = state[j]
      /\ detached /\ ~received => state'[id] # "used"
      /\ ~(detached /\ ~received) => state'[id] = state[id]
  <2>1. CASE detached /\ ~received
    BY <1>1, <1>2, <2>1, AfterGivenBack
  <2>2. CASE ~(detached /\ ~received)
    BY <1>1, <1>4, <2>2
  <2> QED BY <2>1, <2>2
<1>9. /\ Held = {id} \cup {a.id : a \in Buffs}
      /\ Held' = {a.id : a \in Buffs'}
  BY <1>1, <1>2, HeldIs
<1> HIDE DEF received, f
<1>10. DevicesTypeOK'
  <2>1. content' \in [Ids -> Frames] /\ stranded' \subseteq Ids
    BY <1>1, <1>2, <1>3, <1>4 DEF DevicesTypeOK
  <2>2. frames' \in 0..MaxFrames /\ writing' \subseteq Ids
    BY <1>1, <1>2
  <2> QED BY <1>1, <1>2, <1>6, <1>8, <2>1, <2>2 DEF DevicesTypeOK, stamps
<1>11. Apart' /\ (writing' # {} => frames' < MaxFrames)
  BY <1>1, <1>2, <1>5, <1>6 DEF Apart, Buffs
<1>12. DataIntact'
  <2>1. \A a \in Buffs' : content'[a.id].n = a.n
    BY <1>1, <1>2, <1>3, <1>4, <1>7 DEF f
  <2> QED BY <1>1, <2>1 DEF DataIntact, Buffs
<1>13. NoneFree'
  <2> SUFFICES ASSUME NEW a \in Buffs' PROVE state'[a.id] # "free"
    BY <1>9 DEF NoneFree
  <2>1. CASE a \in Buffs
    BY <1>2, <1>4, <1>8, <1>9, <2>1 DEF NoneFree
  <2>2. CASE a = b /\ received
    BY <1>2, <1>8, <1>9, <2>2 DEF NoneFree
  <2> QED BY <1>7, <2>1, <2>2
<1>14. NothingForgotten'
  <2> SUFFICES ASSUME NEW j \in Ids, state'[j] = "used" PROVE j \in Held' \cup stranded'
    BY DEF NothingForgotten
  <2>1. CASE j # id
    <3>1. j \in Held \cup stranded
      BY <1>2, <1>8, <2>1 DEF NothingForgotten
    <3>2. CASE j \in stranded
      BY <1>1, <3>2
    <3>3. CASE \E a \in Buffs : a.id = j
      BY <1>7, <1>9, <3>3
    <3> QED BY <1>9, <2>1, <3>1, <3>2, <3>3
  <2>2. CASE j = id /\ received
    <3>1. b \in Buffs' /\ b.id = j
      BY <1>7, <2>2
    <3> HIDE DEF b
    <3> QED BY <1>9, <3>1
  <2>3. CASE j = id /\ ~received
    BY <1>1, <1>8, <2>3
  <2> QED BY <2>1, <2>2, <2>3
<1> QED BY <1>10, <1>11, <1>12, <1>13, <1>14 DEF BuffersInv
-----------------------------------------------------------------------------
\* Only the place of the demuxer changes.
LEMMA PhaseKeeps ==
  ASSUME BuffersInv,
         demux' \in {"new", "header", "empty", "failed", "open", "read", "closed"},
         UNCHANGED <<server, muxer, queue, reading, packets, stamps, free_cnt, stranded>>
  PROVE  BuffersInv'
<1>1. Held' = Held
  BY DEF Held, muxer
<1>2. DevicesTypeOK'
  BY DEF BuffersInv, DevicesTypeOK, server, muxer, stamps
<1>3. Apart' /\ DataIntact' /\ (writing' # {} => frames' < MaxFrames)
  BY DEF BuffersInv, Apart, DataIntact, server, muxer
<1>4. NoneFree' /\ NothingForgotten'
  BY <1>1 DEF BuffersInv, NoneFree, NothingForgotten, server
<1> QED BY <1>2, <1>3, <1>4 DEF BuffersInv

\* get_stream_info takes the first buffer of the queue.
LEMMA StreamInfoKeeps ==
  ASSUME BuffersInv, NEW attached \in BOOLEAN, NEW detached \in BOOLEAN,
         NEW added \in BOOLEAN, get_stream_info(attached, detached, added)
  PROVE  BuffersInv'
<1> DEFINE b == Head(queue)
<1>1. /\ queue # <<>> /\ queue' = Tail(queue) /\ demux' \in {"open", "empty", "failed"}
      /\ UNCHANGED <<content, muxer, reading, packets, stamps, free_cnt>>
      /\ \/ /\ state' = state
            /\ stranded' = stranded \cup ({b.id} \cap {x \in Ids : state[x] = "used"})
         \/ state' = GivenBack(b.id) /\ stranded' = stranded
  BY DEF get_stream_info
<1>2. DevicesTypeOK /\ Apart /\ queue \in Seq(Buffers) /\ IsInjective(queue)
      /\ MaxQueue \in Nat /\ Len(queue) < MaxQueue /\ Len(queue) \in Nat
  BY DevicesConstants, LenProperties DEF BuffersInv, DevicesTypeOK, Apart
<1>3. /\ queue' \in Seq(Buffers) /\ Len(queue') = Len(queue) - 1 /\ IsInjective(queue')
      /\ b \in Buffers /\ b \notin ToSet(queue') /\ ToSet(queue) = {b} \cup ToSet(queue')
  BY <1>1, <1>2, TailOf
<1> HIDE DEF b
<1>4. b \in Buffs /\ Buffs' = Buffs \ {b} /\ b.id \in Ids
  BY <1>1, <1>2, <1>3 DEF Buffs, Apart, Buffers
<1>5. Apart' /\ (writing' # {} => frames' < MaxFrames)
  BY <1>1, <1>2, <1>3 DEF Apart, muxer, BuffersInv
<1>6. /\ state' \in [Ids -> {"free", "used", "gone"}] /\ stranded' \subseteq Ids
      /\ DataIntact' /\ NoneFree' /\ NothingForgotten'
  <2>1. content' = content /\ writing' = writing
    BY <1>1 DEF muxer
  <2>2. CASE state' = GivenBack(b.id) /\ stranded' = stranded
    BY <1>2, <1>4, <2>1, <2>2, BufferBack DEF DevicesTypeOK
  <2>3. CASE /\ state' = state
             /\ stranded' = stranded \cup ({b.id} \cap {x \in Ids : state[x] = "used"})
    <3>1. \A a \in Buffs \ Buffs' : state[a.id] = "used" => a.id \in stranded'
      BY <1>4, <2>3
    <3>2. DataIntact' /\ NoneFree' /\ NothingForgotten'
      BY <1>4, <2>1, <2>3, <3>1, BufferLeft
    <3> QED BY <1>2, <2>3, <3>2 DEF DevicesTypeOK
  <2> QED BY <1>1, <2>2, <2>3
<1>7. DevicesTypeOK'
  BY <1>1, <1>2, <1>3, <1>6 DEF DevicesTypeOK, muxer, stamps
<1> QED BY <1>5, <1>6, <1>7 DEF BuffersInv

\* read_packet takes the first buffer of the queue.
LEMMA TakeKeeps ==
  ASSUME BuffersInv, ReadTakes
  PROVE  BuffersInv'
<1> DEFINE b == Head(queue)
<1>1. /\ queue # <<>> /\ queue' = Tail(queue) /\ reading = {} /\ reading' = {b}
      /\ UNCHANGED <<server, muxer, demux, packets, stamps, free_cnt, stranded>>
  BY DEF ReadTakes
<1>2. DevicesTypeOK /\ Apart /\ queue \in Seq(Buffers) /\ IsInjective(queue)
      /\ MaxQueue \in Nat /\ Len(queue) < MaxQueue /\ Len(queue) \in Nat
  BY DevicesConstants, LenProperties DEF BuffersInv, DevicesTypeOK, Apart
<1>3. /\ queue' \in Seq(Buffers) /\ Len(queue') = Len(queue) - 1 /\ IsInjective(queue')
      /\ b \in Buffers /\ b \notin ToSet(queue') /\ ToSet(queue) = {b} \cup ToSet(queue')
  BY <1>1, <1>2, TailOf
<1> HIDE DEF b
<1>4. Buffs' = Buffs
  BY <1>1, <1>3 DEF Buffs
<1>5. Apart' /\ (writing' # {} => frames' < MaxFrames)
  BY <1>1, <1>2, <1>3 DEF Apart, muxer, BuffersInv
<1>6. DataIntact' /\ NoneFree' /\ NothingForgotten'
  BY <1>1, <1>4, BufferLeft DEF server, muxer
<1>7. DevicesTypeOK'
  BY <1>1, <1>2, <1>3 DEF DevicesTypeOK, server, muxer, stamps
<1> QED BY <1>5, <1>6, <1>7 DEF BuffersInv

\* The buffer that read_packet has is given back: shmat failed, or the frame
\* is skipped or dropped.
LEMMA ReadBackKeeps ==
  ASSUME BuffersInv, NEW b \in reading, state' = GivenBack(b.id), reading' = {},
         UNCHANGED <<content, muxer, queue, demux, packets, stranded>>,
         last_in_ts' \in [Streams -> 0..MaxTs], last_out_ts' \in [Streams -> Nat],
         first_in_ts' \in [Streams -> 0..MaxTs], base_stream_start' \in BOOLEAN,
         seen' \in [Streams -> 0..MaxTs], free_cnt' \in [Streams -> 0..1]
  PROVE  BuffersInv'
<1>1. DevicesTypeOK /\ Apart
  BY DEF BuffersInv
<1>2. b \in Buffs /\ Buffs' = Buffs \ {b}
  BY <1>1 DEF Buffs, Apart
<1>3. /\ state' \in [Ids -> {"free", "used", "gone"}]
      /\ DataIntact' /\ NoneFree' /\ NothingForgotten'
  BY <1>2, BufferBack DEF muxer
<1>4. Apart' /\ (writing' # {} => frames' < MaxFrames)
  BY <1>1 DEF Apart, BuffersInv, muxer
<1>5. DevicesTypeOK'
  BY <1>1, <1>3 DEF DevicesTypeOK, muxer
<1> QED BY <1>3, <1>4, <1>5 DEF BuffersInv

\* A frame is skipped or dropped.
LEMMA SkipKeeps ==
  ASSUME BuffersInv, ReadSkips
  PROVE  BuffersInv'
<1>1. PICK b \in reading :
        /\ rebuild_timestamp(content[b.id])
        /\ IF Skipped(content[b.id]) THEN UNCHANGED free_cnt ELSE CountDrop(content[b.id])
        /\ state' = GivenBack(b.id)
  BY DEF ReadSkips
<1>2. reading' = {} /\ UNCHANGED <<content, muxer, queue, demux, packets, stranded>>
  BY DEF ReadSkips
<1>3. DevicesTypeOK /\ content[b.id] \in Frames
  BY DEF BuffersInv, DevicesTypeOK, Buffers
<1>4. free_cnt' \in [Streams -> 0..1]
  BY <1>1, <1>3, Counted DEF DevicesTypeOK
<1>5. /\ last_in_ts' \in [Streams -> 0..MaxTs] /\ last_out_ts' \in [Streams -> Nat]
      /\ first_in_ts' \in [Streams -> 0..MaxTs] /\ base_stream_start' \in BOOLEAN
      /\ seen' \in [Streams -> 0..MaxTs]
  BY <1>1, <1>3, Rebuilt
<1> QED BY <1>1, <1>2, <1>4, <1>5, ReadBackKeeps

\* shmat failed.
LEMMA NotAttachedKeeps ==
  ASSUME BuffersInv, ReadNotAttached
  PROVE  BuffersInv'
<1>1. PICK b \in reading : state' = GivenBack(b.id)
  BY DEF ReadNotAttached
<1>2. /\ reading' = {}
      /\ UNCHANGED <<content, muxer, queue, demux, packets, stamps, free_cnt, stranded>>
  BY DEF ReadNotAttached
<1>3. /\ last_in_ts' \in [Streams -> 0..MaxTs] /\ last_out_ts' \in [Streams -> Nat]
      /\ first_in_ts' \in [Streams -> 0..MaxTs] /\ base_stream_start' \in BOOLEAN
      /\ seen' \in [Streams -> 0..MaxTs] /\ free_cnt' \in [Streams -> 0..1]
  BY <1>2 DEF BuffersInv, DevicesTypeOK, stamps
<1> QED BY <1>1, <1>2, <1>3, ReadBackKeeps

\* The buffer becomes the data of a packet, or is given up for lack of memory.
LEMMA ReturnKeeps ==
  ASSUME BuffersInv, NEW ok \in BOOLEAN, ReadReturns(ok)
  PROVE  BuffersInv'
<1>1. PICK b \in reading :
        /\ rebuild_timestamp(content[b.id]) /\ CountDrop(content[b.id])
        /\ \/ packets' = packets \cup {b} /\ stranded' = stranded
           \/ stranded' = stranded \cup {b.id} /\ packets' = packets
  BY DEF ReadReturns
<1>2. reading' = {} /\ demux' = "open" /\ UNCHANGED <<server, muxer, queue>>
  BY DEF ReadReturns
<1>3. DevicesTypeOK /\ Apart /\ b \in Buffers /\ b.id \in Ids /\ content[b.id] \in Frames
  BY DEF BuffersInv, DevicesTypeOK, Buffers
<1>4. free_cnt' \in [Streams -> 0..1]
  BY <1>1, <1>3, Counted
<1>5. /\ last_in_ts' \in [Streams -> 0..MaxTs] /\ last_out_ts' \in [Streams -> Nat]
      /\ first_in_ts' \in [Streams -> 0..MaxTs] /\ base_stream_start' \in BOOLEAN
      /\ seen' \in [Streams -> 0..MaxTs]
  BY <1>1, <1>3, Rebuilt
<1>6. reading = {b}
  BY <1>3 DEF Apart
<1>7. Buffs' \subseteq Buffs /\ \A a \in Buffs \ Buffs' : a = b /\ b.id \in stranded'
  BY <1>1, <1>2, <1>6 DEF Buffs
<1>8. DataIntact' /\ NoneFree' /\ NothingForgotten'
  BY <1>1, <1>2, <1>7, BufferLeft DEF server, muxer
<1>9. Apart' /\ (writing' # {} => frames' < MaxFrames)
  BY <1>1, <1>2, <1>3, <1>6 DEF Apart, BuffersInv, muxer
<1>10. DevicesTypeOK'
  BY <1>1, <1>2, <1>3, <1>4, <1>5 DEF DevicesTypeOK, server, muxer
<1> QED BY <1>8, <1>9, <1>10 DEF BuffersInv

\* The application frees a packet.
LEMMA PacketFreeKeeps ==
  ASSUME BuffersInv, NEW b \in packets, NEW sent \in BOOLEAN,
         ff_smem_av_buffer_free(b, sent)
  PROVE  BuffersInv'
<1>1. /\ packets' = packets \ {b}
      /\ \/ state' = GivenBack(b.id) /\ stranded' = stranded
         \/ /\ state' = state
            /\ stranded' = stranded \cup ({b.id} \cap {x \in Ids : state[x] = "used"})
      /\ UNCHANGED <<content, muxer, queue, demux, reading, stamps, free_cnt>>
  BY DEF ff_smem_av_buffer_free
<1>2. DevicesTypeOK /\ Apart /\ b.id \in Ids
  BY DEF BuffersInv, DevicesTypeOK, Buffers
<1>3. b \in Buffs /\ Buffs' = Buffs \ {b}
  BY <1>1, <1>2 DEF Buffs, Apart
<1>4. /\ state' \in [Ids -> {"free", "used", "gone"}] /\ stranded' \subseteq Ids
      /\ DataIntact' /\ NoneFree' /\ NothingForgotten'
  <2>1. content' = content /\ writing' = writing
    BY <1>1 DEF muxer
  <2>2. CASE state' = GivenBack(b.id) /\ stranded' = stranded
    BY <1>2, <1>3, <2>1, <2>2, BufferBack DEF DevicesTypeOK
  <2>3. CASE /\ state' = state
             /\ stranded' = stranded \cup ({b.id} \cap {x \in Ids : state[x] = "used"})
    <3>1. \A a \in Buffs \ Buffs' : state[a.id] = "used" => a.id \in stranded'
      BY <1>2, <1>3, <2>3
    <3>2. DataIntact' /\ NoneFree' /\ NothingForgotten'
      BY <1>3, <2>1, <2>3, <3>1, BufferLeft
    <3> QED BY <1>2, <2>3, <3>2 DEF DevicesTypeOK
  <2> QED BY <1>1, <2>2, <2>3
<1>5. Apart' /\ (writing' # {} => frames' < MaxFrames)
  BY <1>1, <1>2 DEF Apart, BuffersInv, muxer
<1>6. DevicesTypeOK'
  BY <1>1, <1>2, <1>4 DEF DevicesTypeOK, muxer, stamps
<1> QED BY <1>4, <1>5, <1>6 DEF BuffersInv

\* The device is closed, and its queue given up.
LEMMA CloseKeeps ==
  ASSUME BuffersInv, ff_smem_read_close
  PROVE  BuffersInv'
<1>1. /\ demux' = "closed" /\ queue' = <<>>
      /\ stranded' = stranded \cup {id \in IdsOf(ToSet(queue)) : state[id] = "used"}
      /\ UNCHANGED <<server, muxer, reading, packets, stamps, free_cnt>>
  BY DEF ff_smem_read_close
<1>2. DevicesTypeOK /\ Apart /\ queue \in Seq(Buffers) /\ MaxQueue \in Nat \ {0}
  BY DevicesConstants DEF BuffersInv, DevicesTypeOK
<1>3. /\ queue' \in Seq(Buffers) /\ Len(queue') = 0 /\ ToSet(queue') = {}
      /\ IsInjective(queue')
  BY <1>1 DEF ToSet, IsInjective
<1>4. Buffs' = reading \cup packets
  BY <1>1, <1>3 DEF Buffs
<1>5. \A a \in Buffs \ Buffs' : state[a.id] = "used" => a.id \in stranded'
  BY <1>1, <1>4 DEF Buffs, IdsOf
<1>6. Buffs' \subseteq Buffs
  BY <1>4 DEF Buffs
<1>7. DataIntact' /\ NoneFree' /\ NothingForgotten'
  BY <1>1, <1>5, <1>6, BufferLeft DEF server, muxer
<1>8. Apart' /\ (writing' # {} => frames' < MaxFrames)
  BY <1>1, <1>2, <1>3 DEF Apart, BuffersInv, muxer
<1>9. stranded' \subseteq Ids
  <2>1. ToSet(queue) \subseteq Buffers
    BY <1>2, SetOf
  <2>2. IdsOf(ToSet(queue)) \subseteq Ids
    BY <2>1 DEF IdsOf, Buffers
  <2> QED BY <1>1, <1>2, <2>2 DEF DevicesTypeOK
<1>10. DevicesTypeOK'
  BY <1>1, <1>2, <1>3, <1>9 DEF DevicesTypeOK, server, muxer, stamps
<1> QED BY <1>7, <1>8, <1>10 DEF BuffersInv
-----------------------------------------------------------------------------
\* The invariant holds at the beginning and is kept by every step.
LEMMA BuffersInvariant == DevicesSpec => []BuffersInv
<1>1. DevicesInit => BuffersInv
  <2> SUFFICES ASSUME DevicesInit PROVE BuffersInv
    OBVIOUS
  <2>1. DevicesTypeOK
    BY DevicesConstants DEF DevicesInit, DevicesTypeOK, Frames, NoFrame
  <2>2. ToSet(queue) = {} /\ IsInjective(queue)
    BY DEF DevicesInit, ToSet, IsInjective
  <2>3. Held = {}
    BY <2>2 DEF DevicesInit, Held, IdsOf
  <2>4. Apart /\ DataIntact /\ NoneFree
    BY <2>2, <2>3 DEF DevicesInit, Apart, DataIntact, NoneFree
  <2>5. NothingForgotten
    BY DEF DevicesInit, NothingForgotten
  <2> QED BY <2>1, <2>4, <2>5 DEF DevicesInit, BuffersInv
<1>2. BuffersInv /\ [DevicesNext]_vvars => BuffersInv'
  <2> SUFFICES ASSUME BuffersInv, [DevicesNext]_vvars PROVE BuffersInv'
    OBVIOUS
  <2>1. CASE UNCHANGED vvars
    BY <2>1, PhaseKeeps DEF vvars, BuffersInv, DevicesTypeOK
  <2>2. CASE \E id \in Ids : Expire(id)
    BY <2>2, ExpireKeeps
  <2>3. CASE \E id \in Ids, attached \in BOOLEAN : ff_smem_write_packet(id, attached)
    BY <2>3, WriteKeeps
  <2>4. CASE \E i \in Streams, dts \in 0..MaxTs, detached \in BOOLEAN :
               write_and_publish(i, dts, detached)
    BY <2>4, PublishKeeps
  <2>5. CASE \E attached, detached, added \in BOOLEAN :
               get_stream_info(attached, detached, added)
    BY <2>5, StreamInfoKeeps
  <2>6. CASE \/ \E connected \in BOOLEAN : ff_smem_read_header(connected)
             \/ HeaderTimeout \/ ff_smem_read_packet \/ ReadTimeout
    BY <2>6, PhaseKeeps DEF ff_smem_read_header, HeaderTimeout, ff_smem_read_packet,
                            ReadTimeout
  <2>7. CASE \E ok \in BOOLEAN : ReadReturns(ok)
    BY <2>7, ReturnKeeps
  <2>8. CASE \E b \in packets, sent \in BOOLEAN : ff_smem_av_buffer_free(b, sent)
    BY <2>8, PacketFreeKeeps
  <2> QED BY <2>1, <2>2, <2>3, <2>4, <2>5, <2>6, <2>7, <2>8, TakeKeeps,
             NotAttachedKeeps, SkipKeeps, CloseKeeps DEF DevicesNext
<1> QED BY <1>1, <1>2, PTL DEF DevicesSpec

\* What is read, and what is in a packet, is what was published, for as long
\* as the application has the packet.
THEOREM PacketsIntact == DevicesSpec => []DataIntact
<1>1. BuffersInv => DataIntact
  BY DEF BuffersInv
<1> QED BY <1>1, BuffersInvariant, PTL

\* A buffer that the server counts as used is somewhere in the devices, or
\* was given up on one of the named paths.
THEOREM NoneForgotten == DevicesSpec => []NothingForgotten
<1>1. BuffersInv => NothingForgotten
  BY DEF BuffersInv
<1> QED BY <1>1, BuffersInvariant, PTL

\* Steps that do not read a frame leave the timestamps alone; rebuild_timestamp
\* follows the base stream and moves none backwards.
LEMMA StampStep ==
  ASSUME BuffersInv, [DevicesNext]_vvars
  PROVE  \/ UNCHANGED stamps
         \/ \E f \in Frames : rebuild_timestamp(f)
<1>1. \A b \in reading : content[b.id] \in Frames
  BY DEF BuffersInv, DevicesTypeOK, Buffers
<1>2. CASE ReadSkips \/ \E ok \in BOOLEAN : ReadReturns(ok)
  BY <1>1, <1>2 DEF ReadSkips, ReadReturns
<1>3. CASE UNCHANGED vvars
  BY <1>3 DEF vvars
<1>4. CASE DevicesNext /\ ~(ReadSkips \/ \E ok \in BOOLEAN : ReadReturns(ok))
  BY <1>4 DEF DevicesNext, Expire, ff_smem_write_packet, write_and_publish,
              ff_smem_read_header, get_stream_info, HeaderTimeout, ff_smem_read_packet,
              ReadTimeout, ReadTakes, ReadNotAttached, ff_smem_av_buffer_free,
              ff_smem_read_close
<1> QED BY <1>2, <1>3, <1>4

\* The output timestamps of a stream never go backwards.
THEOREM StampsForward == DevicesSpec => NeverBackwards
<1>1. BuffersInv /\ [DevicesNext]_vvars
        => [\A i \in Streams : last_out_ts'[i] >= last_out_ts[i]]_vvars
  <2> SUFFICES ASSUME BuffersInv, [DevicesNext]_vvars
               PROVE  \A i \in Streams : last_out_ts'[i] >= last_out_ts[i]
    OBVIOUS
  <2>1. CASE UNCHANGED stamps
    BY <2>1 DEF stamps, BuffersInv, DevicesTypeOK
  <2>2. CASE \E f \in Frames : rebuild_timestamp(f)
    BY <2>2, Rebuilt DEF BuffersInv
  <2> QED BY <2>1, <2>2, StampStep
<1> QED BY <1>1, BuffersInvariant, PTL DEF DevicesSpec, NeverBackwards

\* The base stream's clock follows every frame that was read.
THEOREM BaseClock == DevicesSpec => []BaseFollowed
<1>1. DevicesInit => BaseFollowed
  BY DevicesConstants DEF DevicesInit, BaseFollowed
<1>2. BuffersInv /\ BaseFollowed /\ [DevicesNext]_vvars => BaseFollowed'
  <2> SUFFICES ASSUME BuffersInv, BaseFollowed, [DevicesNext]_vvars
               PROVE  BaseFollowed'
    OBVIOUS
  <2>1. CASE UNCHANGED stamps
    BY <2>1 DEF stamps, BaseFollowed
  <2>2. CASE \E f \in Frames : rebuild_timestamp(f)
    BY <2>2, Rebuilt DEF BuffersInv
  <2> QED BY <2>1, <2>2, StampStep
<1> QED BY <1>1, <1>2, BuffersInvariant, PTL DEF DevicesSpec
=============================================================================
