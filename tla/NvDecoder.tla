----------------------------- MODULE NvDecoder -----------------------------
(***************************************************************************)
(* The wrapper of the hardware decoder                                     *)
(* (ffmpeg_nvenc_decode/src/libavcodec/nvenc_dec.c).  ffmpeg calls         *)
(* nvenc_decode_frame with a packet; the call takes one finished frame out *)
(* of a queue and hands the packet to the parser of the driver, which      *)
(* calls back, in the same thread, HandleVideoSequence,                    *)
(* HandlePictureDecode and HandlePictureDisplay.  Display copies the       *)
(* picture and puts the copy into the queue.                               *)
(*                                                                         *)
(* Everything runs in one thread, so a loop that waits for another thread  *)
(* to make room (frame_enqueue, pic_enqueue, pic_wait_frame_available)     *)
(* never ends: bEndOfDecode, the other way out, is set nowhere.            *)
(*                                                                         *)
(* External: the parser (which picture it decodes into which surface, when *)
(* and in which order it shows pictures, how many it holds back) and the   *)
(* results of the calls into the driver.                                   *)
(***************************************************************************)
EXTENDS Naturals, Sequences, FiniteSets

CONSTANTS
  Surfaces,    \* indices of decoded pictures (ulNumDecodeSurfaces, 20)
  QueueSize,   \* NVDEC_MAX_QUEUE_SIZE (20)
  Delay,       \* pictures the parser keeps back between two packets, for
               \* their order and ulMaxDisplayDelay
  Widths,      \* sizes of a sequence; codec and chroma format are fixed
  Align,       \* sizes of surfaces are multiples of it (16)
  MaxPackets   \* bound: packets given to the decoder

ASSUME DecoderConstants ==
  /\ QueueSize \in Nat /\ Delay \in Nat /\ MaxPackets \in Nat
  /\ Delay < QueueSize
  /\ Widths \subseteq Nat /\ Align \in Nat \ {0}
  /\ IsFiniteSet(Surfaces)

VARIABLES
  phase,     \* where the thread is
  packets,   \* packets given so far; the last one's number is its pts
  stamp,     \* cu_pkt.timestamp, 0 for one that is no packet's pts
  todo,      \* what the parser may still find in the packet
  pending,   \* pictures the parser holds: [surface, pts]
  cur,       \* the picture that a callback works on
  aDisplayQueue, aFrameQueue,  \* the two rings
  aIsFrameInUse,               \* surfaces marked as in use
  have_decoded_frames,
  info,      \* video_decode_create_info.ulWidth, 0 before it is filled
  held,      \* the pointers of the context that are not NULL
  alive,     \* history: objects of each kind that exist
  reopened,  \* history: how often the decoder was opened over a context
  leaked,    \* history: surfaces that display left marked
  lost,      \* history: pts of the pictures that display gave up
  shown,     \* history: pts of the frames put into the queue
  output,    \* history: pts of the frames given to ffmpeg
  drained    \* an empty packet brought no frame: ffmpeg stops asking

parser == <<packets, stamp, todo, pending>>
queues == <<aDisplayQueue, aFrameQueue, aIsFrameInUse, have_decoded_frames>>
handles == <<info, held, alive, reopened>>
records == <<leaked, lost, shown, output, drained>>
dvars == <<phase, parser, cur, queues, handles, records>>

Handles == {"cuda_lib", "dec_lib", "parser", "bsf", "context", "lock", "decoder", "host"}
Pictures == [surface : Surfaces, pts : 0..MaxPackets]

(***************************************************************************)
(* The rings: a read position, a number of entries, and the slots.         *)
(***************************************************************************)
EmptyRing == [slots |-> [i \in 0..(QueueSize - 1) |-> 0], read |-> 0, count |-> 0]
HasRoom(q) == q.count < QueueSize

\* (CountedTwice, and the variants below, have a plausible mistake and are
\* not used.)
CountedTwice(q, x) ==
  [q EXCEPT !.slots[(q.read + q.count + 1) % QueueSize] = x, !.count = q.count + 1]
Enqueue(q, x) ==
  [q EXCEPT !.slots[(q.read + q.count) % QueueSize] = x, !.count = q.count + 1]
Front(q) == q.slots[q.read]
Dequeue(q) == [q EXCEPT !.read = (q.read + 1) % QueueSize, !.count = q.count - 1]

\* What a ring holds, oldest first.
Contents(q) == [i \in 1..q.count |-> q.slots[(q.read + i - 1) % QueueSize]]

(***************************************************************************)
(* Opening and closing.                                                    *)
(***************************************************************************)
DecoderInit ==
  /\ phase = "new"
  /\ packets = 0 /\ stamp = 0 /\ todo = "nothing" /\ pending = {} /\ cur = {}
  /\ aDisplayQueue = EmptyRing /\ aFrameQueue = EmptyRing
  /\ aIsFrameInUse = {} /\ have_decoded_frames = FALSE
  /\ info = 0 /\ held = {} /\ alive = [h \in Handles |-> 0] /\ reopened = 0
  /\ leaked = {} /\ lost = {} /\ shown = <<>> /\ output = <<>> /\ drained = FALSE

Created(made) == [h \in Handles |-> alive[h] + IF h \in made THEN 1 ELSE 0]
Destroyed(gone) == [h \in Handles |-> alive[h] - IF h \in gone THEN 1 ELSE 0]

\* What nvenc_decode_close destroys; the CUDA library stays open.  The
\* pointers to the other library and to the filter are not set to NULL.
LockForgotten == (Handles \ {"cuda_lib"}) \ {"lock"}
Closes == Handles \ {"cuda_lib"}
Resets == Closes \ {"dec_lib", "bsf"}

\* The CUDA library, or nothing: when a symbol is missing it is closed again.
nvenc_dyload_cuda(ok) == IF ok THEN {"cuda_lib"} ELSE {}

\* nvenc_decode_init creates the rest in this order, and on the first failure
\* calls nvenc_decode_close for what there is.
InitSteps == <<"dec_lib", "parser", "bsf">>
nvenc_decode_init ==
  /\ phase = "new"
  /\ \E ok \in BOOLEAN, n \in 0..Len(InitSteps) :
       LET made == nvenc_dyload_cuda(ok) \cup {InitSteps[i] : i \in 1..n} IN
       /\ ~ok => n = 0
       /\ phase' = IF n = Len(InitSteps) THEN "idle" ELSE "closed"
       /\ held' = IF n = Len(InitSteps) THEN made ELSE made \ Resets
       /\ alive' = Created(IF n = Len(InitSteps) THEN made ELSE made \ Closes)
  /\ UNCHANGED <<parser, cur, queues, info, reopened, records>>

\* The frames that are still queued are not freed.
nvenc_decode_close ==
  /\ phase = "idle"
  /\ phase' = "closed"
  /\ held' = held \ Resets
  /\ alive' = Destroyed(held \cap Closes)
  /\ UNCHANGED <<parser, cur, queues, info, reopened, records>>

FFALIGN(w) == ((w + Align - 1) \div Align) * Align

\* nvenc_open_decoder with the objects it gets to make before a call fails
\* (all three: success).  It sets cu_context to NULL first, and overwrites a
\* lock, whatever they point to.
nvenc_open_decoder(width, made) ==
  /\ info' = IF made = {} THEN info ELSE FFALIGN(width)
  /\ held' = (held \ {"context"}) \cup made
  /\ alive' = Created(made)
  /\ reopened' = reopened + IF "context" \in held THEN 1 ELSE 0

Openings == {{}, {"context"}, {"context", "lock"}, {"context", "lock", "decoder"}}

(***************************************************************************)
(* The callbacks, in the order in which the parser may make them.          *)
(***************************************************************************)

\* The parser meets a sequence header.  It goes on when the callback returns
\* 1 and drops the packet otherwise.
HandleVideoSequence(width) ==
  /\ phase = "parse" /\ todo = "header"
  /\ IF "decoder" \in held THEN UNCHANGED handles
     ELSE \E made \in Openings : nvenc_open_decoder(width, made)
  /\ IF info' = width THEN todo' = "picture" /\ UNCHANGED lost
     ELSE todo' = "nothing" /\ lost' = lost \cup {stamp}
  /\ UNCHANGED <<phase, packets, stamp, pending, cur, queues, leaked, shown, output, drained>>

\* The packet holds no picture, or none that can be decoded.
ParserSkips ==
  /\ phase = "parse" /\ todo # "nothing"
  /\ todo' = "nothing" /\ lost' = lost \cup {stamp}
  /\ UNCHANGED <<phase, packets, stamp, pending, cur, queues, handles>>
  /\ UNCHANGED <<leaked, shown, output, drained>>

\* Without a decoder the callback does nothing; the parser shows the picture
\* all the same.
HandlePictureDecode(s) ==
  /\ phase = "parse" /\ todo # "nothing"
  /\ s \notin {p.surface : p \in pending}
  /\ todo' = "nothing"
  /\ LET p == [surface |-> s, pts |-> stamp] IN
     IF "decoder" \in held
     THEN phase' = "wait" /\ cur' = {p} /\ UNCHANGED pending
     ELSE pending' = pending \cup {p} /\ UNCHANGED <<phase, cur>>
  /\ UNCHANGED <<packets, stamp, queues, handles, records>>

\* pic_wait_frame_available returns, and the picture is decoded.
PictureAvailable ==
  /\ phase = "wait"
  /\ \A p \in cur : p.surface \notin aIsFrameInUse
  /\ phase' = "parse" /\ pending' = pending \cup cur /\ cur' = {}
  /\ UNCHANGED <<packets, stamp, todo, queues, handles, records>>

\* pic_enqueue, pic_dequeue, and the mapping.  The host memory is allocated
\* at the first picture; on a failure the callback returns at once.
\* Otherwise the picture is copied into new memory, if there is any.
HandlePictureDisplay(p, hostOk, memOk) ==
  /\ phase = "parse" /\ p \in pending /\ HasRoom(aDisplayQueue)
  /\ pending' = pending \ {p}
  /\ LET q == Enqueue(aDisplayQueue, p.surface)
         s == Front(q)
         stops == "host" \notin held /\ ~hostOk
         copied == ~stops /\ memOk
     IN
     /\ aDisplayQueue' = Dequeue(q)
     /\ aIsFrameInUse' = IF ~stops /\ ~memOk
                         THEN (aIsFrameInUse \cup {p.surface}) \ {s}
                         ELSE aIsFrameInUse \cup {p.surface}
     /\ phase' = IF copied THEN "enqueue" ELSE phase
     /\ cur' = IF copied THEN {[surface |-> s, pts |-> p.pts]} ELSE cur
     /\ lost' = IF copied THEN lost ELSE lost \cup {p.pts}
     /\ leaked' = IF stops THEN leaked \cup {p.surface} ELSE leaked
     /\ have_decoded_frames' = (have_decoded_frames \/ (~stops /\ ~memOk))
     /\ IF "host" \in held \/ stops THEN UNCHANGED <<held, alive>>
        ELSE held' = held \cup {"host"} /\ alive' = Created({"host"})
  /\ UNCHANGED <<packets, stamp, todo, aFrameQueue, info, reopened, shown, output, drained>>

\* frame_enqueue finds room; then pic_release and the rest of the callback.
NotReleased ==
  /\ phase = "enqueue" /\ HasRoom(aFrameQueue)
  /\ \E p \in cur :
       /\ aFrameQueue' = Enqueue(aFrameQueue, p.pts)
       /\ shown' = Append(shown, p.pts)
  /\ have_decoded_frames' = TRUE
  /\ phase' = "parse" /\ cur' = {}
  /\ UNCHANGED <<parser, aDisplayQueue, aIsFrameInUse, handles, leaked, lost, output, drained>>
frame_enqueue ==
  /\ phase = "enqueue" /\ HasRoom(aFrameQueue)
  /\ \E p \in cur :
       /\ aFrameQueue' = Enqueue(aFrameQueue, p.pts)
       /\ shown' = Append(shown, p.pts)
       /\ aIsFrameInUse' = aIsFrameInUse \ {p.surface}
  /\ have_decoded_frames' = TRUE
  /\ phase' = "parse" /\ cur' = {}
  /\ UNCHANGED <<parser, aDisplayQueue, handles, leaked, lost, output, drained>>

\* cuvidParseVideoData and nvenc_decode_frame return; cu_pkt is gone.
ParserReturns ==
  /\ phase = "parse" /\ todo = "nothing" /\ Cardinality(pending) <= Delay
  /\ phase' = "idle" /\ stamp' = 0
  /\ UNCHANGED <<packets, todo, pending, cur, queues, handles, records>>

(***************************************************************************)
(* nvenc_decode_frame up to the call of the parser, with a packet or with  *)
(* an empty one.                                                           *)
(***************************************************************************)
frame_dequeue ==
  IF have_decoded_frames /\ aFrameQueue.count > 0
  THEN /\ aFrameQueue' = Dequeue(aFrameQueue)
       /\ output' = Append(output, Front(aFrameQueue))
  ELSE UNCHANGED <<aFrameQueue, output>>

\* cu_pkt gets the packet.  When the bitstream filter fails, the packet is
\* dropped, but the parser is given cu_pkt all the same, uninitialised: it
\* finds anything, or nothing, with any timestamp.  (A crash is left out.)
FillPacket ==
  \/ stamp' = packets' /\ UNCHANGED lost
  \/ stamp' \in 0..packets' /\ lost' = lost \cup {packets'}

OnlyWhenEmpty(full) ==
  /\ phase = "idle"
  /\ IF full
     THEN /\ packets < MaxPackets
          /\ packets' = packets + 1 /\ todo' = "header" /\ phase' = "parse"
          /\ drained' = FALSE /\ FillPacket
          /\ UNCHANGED <<aFrameQueue, output>>
     ELSE /\ frame_dequeue
          /\ drained' = (output' = output)
          /\ UNCHANGED <<packets, stamp, todo, phase, lost>>
  /\ UNCHANGED <<pending, cur, aDisplayQueue, aIsFrameInUse, have_decoded_frames>>
  /\ UNCHANGED <<handles, leaked, shown>>
NotWhenEmpty(full) ==
  /\ phase = "idle"
  /\ IF full
     THEN /\ packets < MaxPackets
          /\ packets' = packets + 1 /\ todo' = "header" /\ phase' = "parse"
          /\ drained' = FALSE /\ FillPacket
          /\ frame_dequeue
     ELSE /\ drained' = TRUE
          /\ UNCHANGED <<packets, stamp, todo, phase, lost, aFrameQueue, output>>
  /\ UNCHANGED <<pending, cur, aDisplayQueue, aIsFrameInUse, have_decoded_frames>>
  /\ UNCHANGED <<handles, leaked, shown>>
nvenc_decode_frame(full) ==
  /\ phase = "idle"
  /\ frame_dequeue
  /\ IF full
     THEN /\ packets < MaxPackets
          /\ packets' = packets + 1 /\ todo' = "header" /\ phase' = "parse"
          /\ drained' = FALSE /\ FillPacket
     ELSE /\ drained' = (output' = output)
          /\ UNCHANGED <<packets, stamp, todo, phase, lost>>
  /\ UNCHANGED <<pending, cur, aDisplayQueue, aIsFrameInUse, have_decoded_frames>>
  /\ UNCHANGED <<handles, leaked, shown>>

\* What happens inside a call of nvenc_decode_frame.
Inside ==
  \/ \E w \in Widths : HandleVideoSequence(w)
  \/ ParserSkips
  \/ \E s \in Surfaces : HandlePictureDecode(s)
  \/ PictureAvailable
  \/ \E p \in pending, hostOk, memOk \in BOOLEAN : HandlePictureDisplay(p, hostOk, memOk)
  \/ frame_enqueue
  \/ ParserReturns

DecoderNext ==
  \/ nvenc_decode_init
  \/ nvenc_decode_close
  \/ \E full \in BOOLEAN : nvenc_decode_frame(full)
  \/ Inside

DecoderSpec == DecoderInit /\ [][DecoderNext]_dvars

\* The thread runs inside a call.  The parser makes finitely many callbacks
\* for a packet, by its guards.
DecoderFairSpec == DecoderSpec /\ WF_dvars(Inside)

(***************************************************************************)
(* Properties.                                                             *)
(***************************************************************************)
Rings(S) == [slots : [0..(QueueSize - 1) -> S \cup {0}],
             read : 0..(QueueSize - 1), count : 0..QueueSize]

\* The types of the variables (struct NvencDecContext).
DecoderTypeOK ==
  /\ phase \in {"new", "idle", "parse", "wait", "enqueue", "closed"}
  /\ packets \in 0..MaxPackets /\ stamp \in 0..MaxPackets
  /\ todo \in {"header", "picture", "nothing"}
  /\ pending \subseteq Pictures /\ cur \subseteq Pictures
  /\ aDisplayQueue \in Rings(Surfaces) /\ aFrameQueue \in Rings(0..MaxPackets)
  /\ aIsFrameInUse \subseteq Surfaces /\ have_decoded_frames \in BOOLEAN
  /\ info \in Nat /\ held \subseteq Handles /\ alive \in [Handles -> Nat]
  /\ reopened \in Nat /\ drained \in BOOLEAN
  /\ leaked \subseteq Surfaces /\ lost \subseteq 0..MaxPackets
  /\ shown \in Seq(0..MaxPackets) /\ output \in Seq(0..MaxPackets)

\* The waiting loops of frame_enqueue and pic_enqueue are never entered: when
\* a picture is to be put into either ring there is room, although nothing
\* can take anything out meanwhile.
AlwaysRoom ==
  /\ phase = "enqueue" => HasRoom(aFrameQueue)
  /\ phase = "parse" => HasRoom(aDisplayQueue)

\* pic_wait_frame_available waits only for a surface that a display callback
\* left marked when it returned without pic_release, because it had no host
\* memory: the one way in which the decoder hangs.
WaitsOnlyForLeaked ==
  phase = "wait" => \A p \in cur : p.surface \in aIsFrameInUse => p.surface \in leaked

\* Frames come out in the order in which display put them in, none twice and
\* none skipped, across the wraps of the ring.
OutputInOrder == output \o Contents(aFrameQueue) = shown

\* When an empty packet brings no frame, every frame that display queued is
\* out, and every other packet is either held by the parser, no more than
\* Delay of them, or was given up for an error.  Only an uninitialised cu_pkt
\* gives a frame the timestamp of no packet.
DrainComplete ==
  drained => /\ output = shown
             /\ Cardinality(pending) <= Delay
             /\ 1..packets = ({output[i] : i \in 1..Len(output)}
                                 \cup {p.pts : p \in pending} \cup lost) \ {0}

\* What nvenc_decode_close leaves, on any path that leads there: the CUDA
\* library, and for each time that nvenc_open_decoder ran over a context, that
\* context and at most one lock.  No pointer is left but those to the CUDA
\* library and, closed and not set to NULL, the decoder's library and the
\* filter.  (The frames still in aFrameQueue are not freed either.)
ClosedIsClean ==
  phase = "closed" =>
    /\ alive["context"] = reopened /\ alive["lock"] <= reopened
    /\ \A h \in Handles \ {"cuda_lib", "context", "lock"} : alive[h] = 0
    /\ held \subseteq {"cuda_lib", "dec_lib", "bsf"}

\* A call of nvenc_decode_frame returns, unless a surface was leaked.
CallReturns == phase = "parse" ~> (phase = "idle" \/ leaked # {})
=============================================================================
