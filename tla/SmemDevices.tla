---------------------------- MODULE SmemDevices ----------------------------
(***************************************************************************)
(* The ffmpeg devices on one channel                                       *)
(* (ffmpeg-device-add/src/ffmpeg-3.0.2/libavdevice): a muxer (smem_enc.c)  *)
(* that fills one shared-memory buffer per packet, and a demuxer           *)
(* (smem_dec.c) that hands the buffers on without copying them, as packets *)
(* of the application, and gives each one back when its packet is freed.   *)
(* The demuxer rebuilds the timestamps: stream 0 is the base, the others   *)
(* are placed relative to it when their input jumps.                       *)
(*                                                                         *)
(* The server and the client library are reduced to what SmemBroker and    *)
(* SmemClient show of them: a buffer is used from SMEMGET on until it is   *)
(* given back, or removed for its age; a removed segment stays mapped      *)
(* where it is attached, and its id is not reused while anybody has it.    *)
(* Timestamps are those after av_rescale_q, in microseconds.               *)
(***************************************************************************)
EXTENDS Integers, Sequences, SequencesExt, FiniteSets

CONSTANTS
  Ids,              \* shared-memory ids
  Streams,          \* the streams, 0 the base
  Raw,              \* the streams with raw video
  should_duration,  \* stream -> duration of a frame
  RangeFactor,      \* durations that the input may advance by (5)
  ClampFactor,      \* durations that a stream is put after the base (10)
  MaxQueue,         \* SMEM_MAX_QUEUE_LENGTH (256)
  MaxTs,            \* bound: input timestamps
  MaxFrames         \* bound: packets written

ASSUME DevicesConstants ==
  /\ Streams \subseteq Nat /\ 0 \in Streams
  /\ should_duration \in [Streams -> Nat]
  /\ RangeFactor \in Nat /\ ClampFactor \in Nat \ {0}
  /\ MaxQueue \in Nat \ {0} /\ MaxTs \in Nat /\ MaxFrames \in Nat

VARIABLES
  state,     \* of each id, for the server: "free", "used", or "gone"
  content,   \* id -> the frame in the segment: its number, stream and dts
  frames,    \* number of packets written so far
  writing,   \* the buffer the muxer is filling, if any
  queue,     \* consumer's queue: buffers with the number of their frame
  demux,     \* where the demuxer is
  reading,   \* the buffer read_packet is working on, if any
  packets,   \* buffers that are data of the application's packets
  last_in_ts, last_out_ts, first_in_ts, base_stream_start, free_cnt,
  seen,      \* history: dts of a stream's last frame that read_packet read
  stranded   \* history: ids given up without being given back

server == <<state, content>>
muxer == <<frames, writing>>
stamps == <<last_in_ts, last_out_ts, first_in_ts, base_stream_start, seen>>
vvars == <<server, muxer, queue, demux, reading, packets, stamps, free_cnt, stranded>>

NoFrame == [n |-> 0, index |-> 0, dts |-> 0]
Frames == [n : 0..MaxFrames, index : Streams, dts : 0..MaxTs]
Buffers == [id : Ids, n : 1..MaxFrames]
IdsOf(S) == {b.id : b \in S}
Held == writing \cup IdsOf(ToSet(queue)) \cup IdsOf(reading) \cup IdsOf(packets)

DevicesInit ==
  /\ state = [id \in Ids |-> "free"] /\ content = [id \in Ids |-> NoFrame]
  /\ frames = 0 /\ writing = {}
  /\ queue = <<>> /\ demux = "new" /\ reading = {} /\ packets = {}
  /\ last_in_ts = [i \in Streams |-> 0] /\ last_out_ts = [i \in Streams |-> 0]
  /\ first_in_ts = [i \in Streams |-> 0] /\ base_stream_start = FALSE
  /\ free_cnt = [i \in Streams |-> 0]
  /\ seen = [i \in Streams |-> 0]
  /\ stranded = {}

(***************************************************************************)
(* The server: SMEMFREE, and the removal of old buffers.                   *)
(***************************************************************************)
GivenBack(id) == [state EXCEPT ![id] = IF @ = "used" THEN "free" ELSE @]

Expire(id) ==
  /\ state[id] = "used"
  /\ state' = [state EXCEPT ![id] = "gone"]
  /\ stranded' = stranded \ {id}
  /\ UNCHANGED <<content, muxer, queue, demux, reading, packets, stamps, free_cnt>>

(***************************************************************************)
(* The muxer.                                                              *)
(***************************************************************************)

\* ff_smem_write_packet up to the attached buffer.  When shmat fails it
\* returns and keeps the id for itself.
ff_smem_write_packet(id, attached) ==
  /\ writing = {} /\ frames < MaxFrames
  /\ state[id] = "free" \/ (state[id] = "gone" /\ id \notin Held)
  /\ state' = [state EXCEPT ![id] = "used"]
  /\ IF attached THEN writing' = {id} /\ UNCHANGED stranded
     ELSE stranded' = stranded \cup {id} /\ UNCHANGED writing
  /\ UNCHANGED <<content, frames, queue, demux, reading, packets, stamps, free_cnt>>

\* The header and the data are copied; smemPublish follows unless shmdt
\* fails.  A consumer whose queue is full gives the buffer back at once, and
\* without a consumer the server takes it back.
write_and_publish(i, dts, detached) ==
  \E id \in writing :
    /\ frames' = frames + 1 /\ writing' = {}
    /\ content' = [content EXCEPT ![id] = [n |-> frames', index |-> i, dts |-> dts]]
    /\ LET received == detached /\ demux \notin {"new", "closed"} /\ Len(queue) < MaxQueue - 1
       IN /\ queue' = IF received THEN Append(queue, [id |-> id, n |-> frames']) ELSE queue
          /\ state' = IF detached /\ ~received THEN GivenBack(id) ELSE state
          /\ stranded' = IF detached \/ state[id] # "used" THEN stranded ELSE stranded \cup {id}
    /\ UNCHANGED <<demux, reading, packets, stamps, free_cnt>>

(***************************************************************************)
(* The demuxer: opening.                                                   *)
(***************************************************************************)

\* ff_smem_read_header subscribes, and get_stream_info begins to wait.  When
\* the connection fails it goes on with a context that is freed, or with none:
\* it crashes or waits in vain, and no buffer arrives.
ff_smem_read_header(connected) ==
  /\ demux = "new" /\ demux' = IF connected THEN "header" ELSE "closed"
  /\ UNCHANGED <<server, muxer, queue, reading, packets, stamps, free_cnt, stranded>>

\* get_stream_info takes one buffer for its stream infos.  Without them, after
\* a timeout or when shmat fails, the device opens with no stream, and nobody
\* reads from it.  When a stream cannot be added ff_smem_read_header returns an
\* error, and libavformat does not close the device: the subscription remains.
get_stream_info(attached, detached, added) ==
  /\ demux = "header" /\ queue # <<>>
  /\ queue' = Tail(queue)
  /\ LET id == Head(queue).id IN
     /\ attached => state[id] # "gone"
     /\ demux' = IF ~attached THEN "empty" ELSE IF added THEN "open" ELSE "failed"
     /\ IF attached /\ ~detached
        THEN UNCHANGED state /\ stranded' = stranded \cup ({id} \cap {x \in Ids : state[x] = "used"})
        ELSE state' = GivenBack(id) /\ UNCHANGED stranded
  /\ UNCHANGED <<content, muxer, reading, packets, stamps, free_cnt>>

HeaderTimeout ==
  /\ demux = "header" /\ queue = <<>>
  /\ demux' = "empty"
  /\ UNCHANGED <<server, muxer, queue, reading, packets, stamps, free_cnt, stranded>>

(***************************************************************************)
(* rebuild_timestamp and if_free_frame, for a frame f.                     *)
(***************************************************************************)
SMEM_NUM_IN_RANGE(n, min, max) == IF n > max THEN max ELSE IF n < min THEN min ELSE n
SMEM_NUM_IF_OUT_RANGE(n, min, max) == n > max \/ n < min

Jumps(f) ==
  SMEM_NUM_IF_OUT_RANGE(f.dts - last_in_ts[f.index], 0, RangeFactor * should_duration[f.index])

\* The output timestamp of a frame that is not skipped.
NotClamped(f) ==
  IF ~Jumps(f) THEN last_out_ts[f.index] + (f.dts - last_in_ts[f.index])
  ELSE IF f.index = 0 THEN last_out_ts[0] + (f.dts - last_in_ts[0])
  ELSE last_out_ts[0] + (f.dts - first_in_ts[0])
out_dts(f) ==
  IF ~Jumps(f) THEN last_out_ts[f.index] + (f.dts - last_in_ts[f.index])
  ELSE IF f.index = 0 THEN last_out_ts[0] + should_duration[0]
  ELSE last_out_ts[0] + SMEM_NUM_IN_RANGE(f.dts - first_in_ts[0], should_duration[f.index],
                                          ClampFactor * should_duration[f.index])

Skipped(f) ==
  /\ f.index # 0
  /\ \/ ~base_stream_start
     \/ Jumps(f) /\ f.dts < first_in_ts[0]
     \/ Jumps(f) /\ out_dts(f) < last_out_ts[f.index]

\* A skipped frame that jumps has already changed first_in_ts.
rebuild_timestamp(f) ==
  /\ first_in_ts' = IF Jumps(f) /\ (f.index = 0 \/ base_stream_start)
                    THEN [first_in_ts EXCEPT ![f.index] = f.dts] ELSE first_in_ts
  /\ IF Skipped(f) THEN UNCHANGED <<last_in_ts, last_out_ts>>
     ELSE /\ last_in_ts' = [last_in_ts EXCEPT ![f.index] = f.dts]
          /\ last_out_ts' = [last_out_ts EXCEPT ![f.index] = out_dts(f)]
  /\ base_stream_start' = (base_stream_start \/ f.index = 0)
  /\ seen' = [seen EXCEPT ![f.index] = f.dts]

\* Raw video is dropped when the queue is half full, but not twice in a row.
Crowded(f) == f.index \in Raw /\ Len(queue) >= MaxQueue \div 2
if_free_frame(f) == Crowded(f) /\ free_cnt[f.index] < 1

CountDrop(f) ==
  free_cnt' = IF ~Crowded(f) THEN free_cnt
              ELSE [free_cnt EXCEPT ![f.index] = IF if_free_frame(f) THEN @ + 1 ELSE 0]

(***************************************************************************)
(* The demuxer: reading.                                                   *)
(***************************************************************************)
ff_smem_read_packet ==
  /\ demux = "open" /\ demux' = "read"
  /\ UNCHANGED <<server, muxer, queue, reading, packets, stamps, free_cnt, stranded>>

\* The queue stays empty until the timeout.
ReadTimeout ==
  /\ demux = "read" /\ reading = {} /\ queue = <<>>
  /\ demux' = "open"
  /\ UNCHANGED <<server, muxer, queue, reading, packets, stamps, free_cnt, stranded>>

ReadTakes ==
  /\ demux = "read" /\ reading = {} /\ queue # <<>>
  /\ reading' = {Head(queue)} /\ queue' = Tail(queue)
  /\ UNCHANGED <<server, muxer, demux, packets, stamps, free_cnt, stranded>>

\* shmat fails: the buffer goes back and the loop goes on.
ReadNotAttached ==
  /\ demux = "read"
  /\ \E b \in reading : state' = GivenBack(b.id)
  /\ reading' = {}
  /\ UNCHANGED <<content, muxer, queue, demux, packets, stamps, free_cnt, stranded>>

\* The frame is skipped, or dropped for room; its buffer goes back, and the
\* loop goes on.
SkipForgotten ==
  /\ demux = "read"
  /\ \E b \in reading :
       LET f == content[b.id] IN
       /\ state[b.id] # "gone"
       /\ Skipped(f) \/ if_free_frame(f)
       /\ rebuild_timestamp(f)
       /\ IF Skipped(f) THEN UNCHANGED free_cnt ELSE CountDrop(f)
  /\ reading' = {}
  /\ UNCHANGED <<server, muxer, queue, demux, packets, stranded>>
DropBeforeStamp ==
  /\ demux = "read"
  /\ \E b \in reading :
       LET f == content[b.id] IN
       /\ state[b.id] # "gone"
       /\ Skipped(f) \/ if_free_frame(f)
       /\ IF if_free_frame(f)
          THEN /\ seen' = [seen EXCEPT ![f.index] = f.dts]
               /\ UNCHANGED <<last_in_ts, last_out_ts, first_in_ts, base_stream_start>>
          ELSE rebuild_timestamp(f)
       /\ IF Skipped(f) THEN UNCHANGED free_cnt ELSE CountDrop(f)
       /\ state' = GivenBack(b.id)
  /\ reading' = {}
  /\ UNCHANGED <<content, muxer, queue, demux, packets, stranded>>
ReadSkips ==
  /\ demux = "read"
  /\ \E b \in reading :
       LET f == content[b.id] IN
       /\ state[b.id] # "gone"
       /\ Skipped(f) \/ if_free_frame(f)
       /\ rebuild_timestamp(f)
       /\ IF Skipped(f) THEN UNCHANGED free_cnt ELSE CountDrop(f)
       /\ state' = GivenBack(b.id)
  /\ reading' = {}
  /\ UNCHANGED <<content, muxer, queue, demux, packets, stranded>>

\* The buffer becomes the data of a packet.  When memory for the packet is
\* missing, read_packet returns and the buffer is not given back.
GivenBackEarly(ok) ==
  /\ demux = "read" /\ demux' = "open"
  /\ \E b \in reading :
       LET f == content[b.id] IN
       /\ state[b.id] # "gone"
       /\ ~Skipped(f) /\ ~if_free_frame(f)
       /\ rebuild_timestamp(f)
       /\ CountDrop(f)
       /\ packets' = IF ok THEN packets \cup {b} ELSE packets
       /\ state' = GivenBack(b.id)
  /\ reading' = {}
  /\ UNCHANGED <<content, muxer, queue, stranded>>
ReadReturns(ok) ==
  /\ demux = "read" /\ demux' = "open"
  /\ \E b \in reading :
       LET f == content[b.id] IN
       /\ state[b.id] # "gone"
       /\ ~Skipped(f) /\ ~if_free_frame(f)
       /\ rebuild_timestamp(f)
       /\ CountDrop(f)
       /\ IF ok THEN packets' = packets \cup {b} /\ UNCHANGED stranded
          ELSE stranded' = stranded \cup {b.id} /\ UNCHANGED packets
  /\ reading' = {}
  /\ UNCHANGED <<server, muxer, queue>>

\* The application frees a packet.  Nothing is given back when shmdt fails.
\* After the device was closed the callback uses a context that is freed:
\* SMEMFREE may be sent or not.
ff_smem_av_buffer_free(b, sent) ==
  /\ b \in packets
  /\ packets' = packets \ {b}
  /\ IF sent THEN state' = GivenBack(b.id) /\ UNCHANGED stranded
     ELSE UNCHANGED state /\ stranded' = stranded \cup ({b.id} \cap {x \in Ids : state[x] = "used"})
  /\ UNCHANGED <<content, muxer, queue, demux, reading, stamps, free_cnt>>

\* smemFree frees the queue; what is in it stays used.  Packets may remain.
ff_smem_read_close ==
  /\ demux \in {"open", "empty"} /\ demux' = "closed"
  /\ queue' = <<>>
  /\ stranded' = stranded \cup {id \in IdsOf(ToSet(queue)) : state[id] = "used"}
  /\ UNCHANGED <<server, muxer, reading, packets, stamps, free_cnt>>

DevicesNext ==
  \/ \E id \in Ids : Expire(id)
  \/ \E id \in Ids, attached \in BOOLEAN : ff_smem_write_packet(id, attached)
  \/ \E i \in Streams, dts \in 0..MaxTs, detached \in BOOLEAN : write_and_publish(i, dts, detached)
  \/ \E connected \in BOOLEAN : ff_smem_read_header(connected)
  \/ \E attached, detached, added \in BOOLEAN : get_stream_info(attached, detached, added)
  \/ HeaderTimeout
  \/ ff_smem_read_packet
  \/ ReadTimeout
  \/ ReadTakes
  \/ ReadNotAttached
  \/ ReadSkips
  \/ \E ok \in BOOLEAN : ReadReturns(ok)
  \/ \E b \in packets, sent \in BOOLEAN : ff_smem_av_buffer_free(b, sent)
  \/ ff_smem_read_close

DevicesSpec == DevicesInit /\ [][DevicesNext]_vvars

(***************************************************************************)
(* Properties.                                                             *)
(***************************************************************************)

\* The types of the variables (struct smem_dec_ctx and struct memory_info).
DevicesTypeOK ==
  /\ state \in [Ids -> {"free", "used", "gone"}] /\ content \in [Ids -> Frames]
  /\ frames \in 0..MaxFrames /\ writing \subseteq Ids
  /\ queue \in Seq(Buffers) /\ Len(queue) < MaxQueue
  /\ demux \in {"new", "header", "empty", "failed", "open", "read", "closed"}
  /\ reading \subseteq Buffers /\ packets \subseteq Buffers
  /\ last_in_ts \in [Streams -> 0..MaxTs] /\ last_out_ts \in [Streams -> Nat]
  /\ first_in_ts \in [Streams -> 0..MaxTs] /\ base_stream_start \in BOOLEAN
  /\ free_cnt \in [Streams -> 0..1]
  /\ seen \in [Streams -> 0..MaxTs]
  /\ stranded \subseteq Ids

\* What the demuxer reads, and what the application finds in its packets for
\* as long as it has them, is what was published: the muxer never gets a
\* buffer that is queued, being read, or the data of a packet, also when the
\* server has removed buffers for their age meanwhile.
DataIntact ==
  \A b \in ToSet(queue) \cup reading \cup packets :
    content[b.id].n = b.n /\ b.id \notin writing

\* Each buffer that the server counts as used is in one place in the devices,
\* or was given up on one of the paths without SMEMFREE: a failed shmat or
\* shmdt, missing memory, a closed device.  No other path forgets a buffer.
NothingForgotten == \A id \in Ids : state[id] = "used" => id \in Held \cup stranded

\* The timestamps of a stream never go backwards, whatever the input does and
\* whichever frames are skipped or dropped (rebuild_timestamp).
NeverBackwards == [][\A i \in Streams : last_out_ts'[i] >= last_out_ts[i]]_vvars

\* The base stream's clock follows every frame that ff_smem_read_packet read, the
\* dropped ones included: only a jump of the input itself is taken for one.  The
\* frame that get_stream_info took for its stream infos is not among them.
BaseFollowed == last_in_ts[0] = seen[0]
=============================================================================
