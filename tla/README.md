# Verification of the shared-memory broker and its neighbours

This directory holds TLA+ models of the system at the centre of the repository: a
Redis server that was changed into a broker of shared-memory buffers, the client
library and the ffmpeg devices that use it. Beside it are models of the wrapper of
a hardware decoder and of two parts of the vendored OpenSSH. TLC checks the models
on small instances, and TLAPS proves most safety properties for every instance.

## The system

Media processes on one host pass frames to each other without copying them.

* The **server** (`redis/src/smem4redis.c`, `redis/src/smem.c`, and changes in
  `server.c`, `networking.c`, `server.h`) keeps a table of System V segments.
  `SMEMGET` gives out a buffer, `SMEMPUBLISH` sends its id to the subscribers of a
  channel, `SMEMFREE` ends one use, `SMEMRM` removes a segment, and a timer removes
  every buffer older than five seconds. `SMEMSUBSCRIBE` and `SMEMSWITCH` decide who
  receives what. The server has one thread: a command is atomic.
* The **client library** (`redis/test/smem_client.c`) gives a producer get and
  publish, and a consumer a queue of received ids. A thread of the consumer's
  context owns the subscription, over a changed hiredis
  (`redis/deps/hiredis/async.c`). The queue is a ring without a lock.
* The **ffmpeg devices** (`ffmpeg-device-add`) are a muxer that gets, fills and
  publishes a buffer per packet, and a demuxer that reads them, rebuilds the
  timestamps and gives the buffers back.

Two other parts are separate programs with state of their own:

* The **hardware decoder** (`ffmpeg_nvenc_decode/src/libavcodec/nvenc_dec.c`) feeds
  packets to the parser of the driver, whose callbacks decode, copy and queue
  pictures in the same thread.
* **OpenSSH 6.4p1** is vendored. Modelled are one channel of the connection
  protocol (`channels.c`, `nchan.c`, `session.c`, the two main loops) and user
  authentication with privilege separation (`auth2*.c`, `monitor.c`,
  `monitor_wrap.c`).

The rest (a downloader of videos in `mitmproxy`, a watcher of domain names in
`yuming`, scripts, small exercises) is not modelled. `PROJECT.json` lists every
part with its status.

## Modules

| Module | Models | Source |
| --- | --- | --- |
| `SmemPool` | the table of buffers and the memory account | `smem4redis.c`, `smem.c`, `server.h` |
| `SmemRouting` | what subscriptions promise (abstract) | |
| `SmemPubSub` | the two records of a subscription | `smem4redis.c`, `networking.c` |
| `SmemBroker` | pool and subscriptions with producers and consumers | `smem4redis.c`, `smem_client.c` |
| `SmemFifo` | what the consumer's queue promises (abstract) | |
| `SmemQueue` | the ring, one memory access per step | `smem_client.c` |
| `SmemClient` | a consumer's context: thread, callbacks, connections | `smem_client.c`, `async.c` |
| `SmemDevices` | muxer and demuxer on one channel, buffers and timestamps | `smem_enc.c`, `smem_dec.c` (ffmpeg 3.0.2) |
| `NvDecoder` | the decoder: rings, callbacks, surfaces, handles | `nvenc_dec.c` |
| `SshChannel` | one channel, both ends | `channels.c`, `nchan.c`, `session.c`, `serverloop.c`, `clientloop.c` |
| `SshAuth` | the server's child and monitor up to the login | `auth2.c`, the methods, `monitor.c`, `monitor_wrap.c` |

`MC...` modules give TLC its instances; `...Proofs` modules hold the theorems.
`SmemBroker` EXTENDS `SmemPool` and `SmemPubSub` and calls their handlers.
`SmemPubSub` implements `SmemRouting`, and `SmemQueue` implements `SmemFifo`.
`SmemClient` uses the abstract queue. `SmemDevices` reduces server and library to
what `SmemBroker` and `SmemClient` show of them. The other modules stand alone.

In several modules a definition is preceded by a variant with a plausible mistake
(a missing test, a wrong order). The specifications do not use them; each is there
because a property must fail when it takes the place of the definition.

### State and actions

**SmemPool.** `smem[id]` is the `struct smem_t`; its `state` says whether it is in
`smempubsub_memorys` (used) or in a list of `smempubsub_memorys_available`.
`segsize` is the kernel's side and `share_memory_size` the server's counter, which
wraps as a `size_t`. `last_time` is kept as an age up to `Timeout + 1`, since the
code only compares it with the timeout. Each command handler is an action;
`smemFreeShareMemory` is a whole pass of the cron, `Restart` a new server process.

**SmemPubSub.** `channels[c]` is the client's set, `lists[ch]` the server's list.
`smemswitchCommand` scans all lists, forgets the channel of every match and moves
the last match, as the code does. `aborted` records a failed `serverAssert`. A
client is an address: after `freeClient` a new connection may reuse it.

**SmemBroker.** `writing` and `reading` say who has which buffer. Producers and
consumers may vanish at any time with any of their ids. `calm` records that nobody
has vanished, nothing was disconnected and the cron has not run yet.

**SmemQueue.** `push` and `pop` are the program counters of the two threads.

**SmemClient.** `replies` counts the regular callbacks of hiredis that wait,
`wire` holds the replies under way, `dropping` is the id that the thread gives back
because the queue is full, `links` says which of the other two connections work.
`sent` is what the server counts for this consumer, and `lost` what nobody can give
back any more.

**SmemDevices.** `state[id]` is what the server knows of a buffer, `content[id]`
the frame in its segment. A buffer passes from `writing` through `queue` and
`reading` to `packets`, the data of the application's packets, which the
application frees in any order, also after the device was closed. `read_packet` is
split where the application or the server can act in between: the wait, the taking
of an id, and one action per way out of an iteration of its loop. The header may
fail to connect (`closed`), or to make a stream of what it found (`failed`): then it
is still subscribed, and its queue goes on filling, because nobody closes it.
`stranded` records the buffers that the code gives up without `SMEMFREE`.
`rebuild_timestamp` keeps the code's fields; `seen` is the last input of a stream
that `read_packet` read.

**NvDecoder.** `phase` is where the one thread is: outside, in the parser, in the
wait for a surface, or before `frame_enqueue`. The parser is external: it may find
a header or a picture in a packet or nothing, and shows the pictures it holds in any
order. `FillPacket` gives it a packet, or, when the bitstream filter failed, the
uninitialised `cu_pkt`: `stamp` is the timestamp that it then finds, which may be
any. The rings have the code's read position and count. `held` is the set of
pointers that are not NULL, `alive` counts the objects behind them, and `reopened`
how often the decoder was opened over a context. `nvenc_decode_close` destroys
`Closes` and sets `Resets` to NULL, which are not the same set.

**SshChannel.** `ch[p]` is the record of the fields of `struct Channel` at one end;
the functions of `channels.c` and `nchan.c` map records to records, under their
names. `ch[p].wire` holds the messages of `p` that the other end has not processed.
An iteration of a main loop is one step for each message that it processes
(`process_buffered_input_packets`) and one for the rest (`Loop`): in each an end
touches only its own channel. The server may fail to start the program
(`do_exec_no_pty`); its reply then makes the client give up
(`channel_input_status_confirm`). A program ends by itself or by a signal: the server
sends `exit-status` or `exit-signal`, and the client looks only at the first.
What the other end does between them only adds
messages, so that nothing is lost against steps of whole iterations, and more orders
are covered than the loops have.

**SshAuth.** `s.net` is the child's `Authctxt` with what it knows of the
connection, `s.mon` the monitor's with its table of permitted requests. A message
of the client is one step, because the child waits for every answer of the monitor.
`s.mon.proved` and `s.mon.refused` record what the monitor verified and refused.

## Model checking

| Run | Result | Question |
| --- | --- | --- |
| `pool_admin` | holds | With `SMEMRM` and restarts: are the table and its lists well formed, and does every used buffer come back? |
| `broker` | holds | Is a buffer being written in nobody else's hands, does the use count cover its holders (exactly, until something goes wrong), is the memory account exact and within the limit, do the two records of a subscription agree, and is the routing the promised one? |
| `queue` | holds | Does the ring implement the bounded queue, and does a full ring get room again? |
| `client` | holds | Is every id in one place, given back in the end, and matched with the right callback? |
| `devices` | holds | Does a packet keep its data for as long as the application has it, is no buffer forgotten, and do timestamps never go backwards? |
| `decoder` | holds | Are the waiting loops of a single thread never entered, do frames come out in order and completely, does closing free everything that it can still reach, does a call return? |
| `ssh_channel` | holds | Do the two windows agree, is nothing truncated, is there no message for a freed channel and none after CLOSE, has the client the exit status when it frees a session, are both ends freed? |
| `ssh_auth` | holds | Do child and monitor agree on the success and on what is left of the lists, is a complete list proved, are wrong guesses bounded, does the login end? |
| `pool_rm` | violated | Does the limit hold after `SMEMRM`? |
| `pubsub_names` | violated | Does no assertion fail when two connections have one name? |
| `pubsub_many` | violated | Is no freed client in a list, when a connection has several channels? |
| `client_ack` | violated | Was everything that a consumer gets published to it? |

Type invariants are proved (below) and not run, except that of `SshChannel`, which
is a conjunct of `WindowsAgree`.

### Bounds

* Pool: 2 ids in `pool_admin` and `broker`, 3 in `pool_rm`. Requests of 1, 4 and 9
  round to one and two pages and to a size that is too large; `Limit` refuses the
  second large buffer. `ListMax` 0 or 1 (the code's 20) makes a list of one size
  overflow. `FreeTries = 1` (5) and `Timeout = 1` (5) still give a failing removal a
  retry and a buffer an age at which it is kept. `SizeModulus` (2^64) lets the
  counter wrap in `pool_rm`. `MaxCnt` and `MaxReceivers` bound the use counts.
* Broker: 2 producers, 2 consumers, 2 channels, 2 names, 2 buffers.
* `pubsub_many`: 4 channels, so that a switch leaves lists behind.
* Queue: 4 slots (256), 3 values; the indices wrap and the ring fills.
* Client: 3 ids and 2 places, so that the queue overflows; one `smemSetName`.
  `AckId` is outside `Ids`: that the number in the answer to the subscription is
  taken for an id is the finding of `client_ack`.
* Devices: 2 buffers, 5 frames, 2 streams and timestamps 0..3 with a duration of 1
  and a range of 1 (5), so that inputs jump forwards and backwards; a ring
  of 2 places, of which one is used, so that the queue is full with one frame: the
  library drops the next, and raw frames are dropped for room.
* Decoder: rings of 2 slots (20), 2 surfaces, a delay of 1, 3 packets: the rings
  wrap and fill. One width is aligned and one is not, so that opening succeeds and
  is refused by the comparison of sizes.
* `ssh_channel`: a window of 2 and packets of 1, with 3 bytes to send in one
  direction, stderr included: the window is used up, given back and used again.
  Each read returns up to the whole window or fails; each write takes a part or
  fails.
* `ssh_auth`: 3 users (root, one other, one without an account), 2 keys (one with a
  forced command), 4 tries, 16 configurations: every `PermitRootLogin` with and
  without empty passwords, forced-commands-only also without a key that has a
  command, and 7 with lists of methods (a list that is part of
  another, two with a common start, one with a disabled method, none usable).

Deadlock is checked for `pool_admin`, `broker` and `queue`. In the other runs the
system may stop: a context is freed, a device or decoder closed, the bounded
packets used up, a channel freed, a login over.

### Fairness

* `UsedComesBack`: the clock advances and the cron runs (`serverCron` calls
  `smemFreeShareMemory` periodically). Nothing is assumed of the clients.
* `FullMakesRoom`: the application keeps popping.
* `GivenBack`: the event loop takes the next reply, a call of the library returns,
  and the application asks for ids and frees each one, as `consumer_smem.c` and the
  demuxer do. Nothing is assumed of the server.
* `CallReturns`: the thread runs inside a call. That the parser makes finitely many
  callbacks per packet is in its guards.
* `BothFreed`: both main loops run, get the messages and poll for output; an
  application takes what is written to it (or the write fails), ends its output, and
  the program exits. The fairness is written out as `[]<>g => []<><<A>>_ch` because
  the action of a loop has results that change nothing.
* `Concluded`: the alarm of `LoginGraceTime` goes off, signals arrive, and the
  monitor notices the end of the child. Nothing is assumed of the client.

## Proofs

| Module | Theorems |
| --- | --- |
| `SmemPartProofs` | on the ring: `QueueTypes`, `SlotsNotShared`, `RingIsFifo`; on the subscriptions: `PubSubTypes`, `TablesAlwaysAgree`, `AssertionsHold`, `ReceiversLive`, `SwitchExact`, `RoutingRefined` |
| `SmemBrokerProofs` | on the pool: `PoolTypes`, `CountsAlwaysMatch`, `ListsStayBounded` (with `SMEMRM` and restarts), `AccountsExact`, `LimitKept`, `TableKept`, `LastUserReleases`; on pool and subscriptions with the processes: `WritersAlone`, `CountsCoverHolders`, `CountsExact`, `BrokerIsPool`, `BrokerIsDevices` |
| `SmemClientProofs` | `IdsHeldOnce`, `RegularFirst`, `AnswersExpected` |
| `SmemDevicesProofs` | `PacketsIntact`, `NoneForgotten`, `StampsForward`, `BaseClock` |
| `NvDecoderProofs` | `QueuesNeverWait`, `WaitsForLeaked`, `FramesInOrder`, `CloseIsClean`, `DrainedComplete` |
| `SshChannelProofs` | `ChannelInvariant`, `ChannelWindowsAgree`, `ChannelNoDisconnect`, `ChannelNothingTruncated`, `ChannelStatusBeforeFree`, `ChannelSilentAfterClose`; the lemmas on the single changes and on the functions of an iteration are in `SshChannelSteps` |
| `SshAuthProofs` | `AuthInvariant`, `SuccessAgrees`, `ListIsCompleted`, `ListsStayEqual`, `MonitorNeverFatal`, `ChecksAreBounded` |

Assumptions on the constants are named and stand in the modules that declare them:
`PoolConstants` (finitely many ids, and a counter wider than limit and largest
segment together), `NoNameIsNone`, `BrokerConstants` (finitely many processes, and
no more subscribers than `MaxReceivers`), `QueueConstants` (at least two slots),
`ClientConstants`, `DevicesConstants` (stream 0 exists, a positive clamp, a queue
with at least one slot), `DecoderConstants` (the parser holds back fewer pictures
than a ring has slots; the code uses 20 slots), `ChannelConstants` (the two channel
types, and natural numbers for the sizes), `AuthConstants` (the configurations are
records of the options modelled, and no list of methods is empty). `IdsHeldOnce`
also assumes that `AckId` is no id, and the theorems on `SshAuth` are about the
configurations with `SameRules`.

**Pool.** That the account is exact is not inductive alone. `AccountInv` adds that
descriptors and segments have equal sizes, that a descriptor is absent exactly when
its size is 0, and that the count is within the limit; the last part shows that no
sum wraps around. `TotalSize` is the cardinality of a set of (id, byte) pairs, so
that the lemmas on sums follow from the theorems on finite sets.

**Subscriptions.** `DeviceInv` says that set and list agree, that no list repeats a
client, that a client has at most one channel, and that names are distinct. Under it
a switch finds at most one match (`SwitchMovesOne`), for any order of the scan; the
refinement of `SmemRouting` maps `route` to the clients' sets.

**Broker.** `BrokerInv` joins the invariants of both parts with `Covered(id)`: a
tracked buffer's count is at least the number of its holders, and a held buffer that
the server knows is in the used dict. A producer can then only be given a buffer
without holders. `BrokerIsPool` and `BrokerIsDevices` show that every step of the
composition is a step of either part or leaves it alone, which carries the theorems
on the parts over to it.

**Queue.** `RingInv` says what each thread knows between its test and its store: the
other thread can only make the test more true. `RingIsFifo` maps the ring to the
sequence of the slots from head to end.

**Client.** `AnswersInv` says that of the answers under way, followed by those to
the commands under way, the first `replies` belong to regular commands, since the
subscription ends the adding of regular callbacks. `HeldOnce` is inductive with it:
no id is ever dropped by a regular callback. Occurrences in a sequence are counted
by the cardinality of the set of their positions.

**Devices.** `BuffersInv` says that a buffer is in one place only, that its frame is
the one that its entry names, and that a buffer that is free for the server is
nowhere. `StampsForward` follows from the two tests of `rebuild_timestamp` and the
positive step of the base stream.

**Decoder.** `DecoderInv` bounds `Load`, the frames that are queued or that this
call can still queue, by `Delay + 1`: a call takes a frame out before its packet
brings one in. The ring lemmas (`Enqueued`, `Dequeued`) reduce the arithmetic of
positions to sequences. `HandlesInv` counts the objects behind the pointers, and
`AccountInv` says where each packet is.

**Channels.** `ChannelInv` says that the two ends are in one of the states of
`Opening`, before both know of the channel, that the client `GaveUp` from there, or
that it is `Established`. The latter is a conjunction of relations of a few fields
each, so that a change has to be compared only with the relations whose fields it
touches. `LocalInv` is about one end: when its halves may be closed, that a running
program keeps its channel, that no part of its window is lost while nothing has
failed (`Holding`). `OneWay` is about an end, the messages that it has sent, and the
other end: nothing follows CLOSE and no data follows EOF (`Closes`, `Eofs`), the
status of a reaped program that exited is under way or has arrived, and there is
none of a killed one (`Status`), an input that closed was sent completely (`Sent`),
what one application wrote and the other has not got is in a buffer or a message
(`Balance`, `ErrBalance`), and the same for the window (`Windows`). No property is
inductive alone. That no byte is dropped as too much needs `Windows`; that EOF does
not overtake data needs `Balance` and `Sent`; that no message meets a freed channel
needs that both CLOSEs are the last of their messages. The bytes of the messages
under way are the cardinality of a set of (message, byte) pairs, so that what a
message adds (`UnderAppend`) and takes away (`UnderTail`) follows from the theorems
on finite sets without an induction over sequences. The lemmas before take this as
the hypothesis `Counted`; `BytesAreCounted` proves it, so that no theorem has a
hypothesis left. `SshChannelSteps` has one lemma for each change of a channel
(`SendsData`, `ClosesInput`, `TakesEof`, `Frees`, ...): it keeps `Established` and
sends nothing that it must not (`Quiet`). It then follows the functions of an
iteration through their cases to these changes. `SshChannelProofs` does so for the
messages (`Dispatches`), the iterations (`ClientLoops`, `ServerLoops`) and the
opening (`OpeningStep`).

**Authentication.** `AuthInv` relates the two processes between two messages: how
far each is (`PhasesInv`), what the monitor permits for the child's next request
(`PermitInv`), that user and lists are the same (`AgreeInv`), how root can have got
in and that a command in force comes from a key of the user (`RootInv`,
`Commanded`), that what is gone from a list was verified in its order (`ListsInv`),
and that the child's failures cover the checks refused (`BoundInv`). None of the
five properties is inductive alone: that the monitor never gives up, for example,
needs that the lists are equal, which needs that it did not give up. The proof
follows a request: a lemma for each call of the monitor (`CallPassword`,
`CallKeyAllowed`, `CallKeyVerify`, ...), one for what each method can come to
(`Outcome`), one for each way in which `userauth_finish` ends, and `RequestInv` for
the handler as a whole. `SameRules` excludes with lists of methods the
configurations named under the limits below; without lists it excludes nothing.

Only model-checked: the liveness properties `UsedComesBack`, `FullMakesRoom`,
`GivenBack`, `CallReturns`, `BothFreed` and `Concluded`, because liveness under
fairness is beyond the prover. Every other property of a run that holds is also
proved.

## What the violated runs show

* `pool_rm`: the cron takes the size of a segment off the count at every failed
  removal (`smem4redis.c:671` and `:628`). After `SMEMRM`, which leaves the
  descriptor behind, each pass fails, and the server allocates past its limit.
* `pubsub_names`: `SMEMSWITCH` forgets the channel of every client with the name but
  moves one. A later disconnect fails the assertion at `smem4redis.c:399`.
* `pubsub_many`: a switch empties the whole set of a client with several channels
  and moves one list entry; the other lists keep the client after it is freed.
* `client_ack`: `smem_client.c:287` takes the number of channels in the answer to
  the subscription for an id.

`broker` therefore assumes what the devices do: distinct names and one channel per
connection. It also assumes that a producer does not free what it has published;
`producer_smem.c:70`, a test program, does, although publishing has already ended
the producer's use, and then the count does not cover the holders.

## Limits of the models

* The kernel does not reuse an id while the server tracks it or somebody has it (its
  sequence numbers are long).
* `SmemQueue` has the stores of a push in program order, as in the unoptimised build
  of `redis/build.sh`. The build of ffmpeg optimises.
* `SmemClient` takes a call of hiredis as one step. `smemSetName` from another
  thread, and the thread's life after `smemFree`, are data races whose effects
  inside hiredis are not modelled.
* An empty list that a switch leaves in the server's table is not a violation of any
  property; it only takes memory.
* `SmemDevices` has one muxer and one demuxer. The wait of `read_packet` ends by a
  timeout only while the queue is empty, as in the code. `smem_dec.c:344` says that
  a stream that jumped has the distance of its input to the base; since the code
  measures it from the base's last jump (`:341`) and adds it to the base's last
  output, no property claims this.
* `NvDecoder` leaves out what is in a frame, and a crash of the parser on an
  uninitialised packet. After a failed opening `HandleVideoSequence` opens the
  decoder again over the older context: `ClosedIsClean` says that closing leaves
  exactly these contexts, and at most as many locks. The frames still in the queue
  are not freed either, which no property is about. `CallReturns` exempts a decoder
  with a leaked surface: display returns without `pic_release` when it has no host
  memory.
* `BothFreed` exempts channels of which both ends have lost a part of the window: a
  failed write clears the output (`nchan.c:490`) without counting it as consumed,
  so the window is never given back.
* `SshChannel` has one channel per connection and no rekeying, which only delays
  messages.
* `StatusBeforeFree` says what `ssh` knows when it frees its session: for a program
  that a signal killed it has no status, since it does not look at `exit-signal`.
* `SuccessAgreed` says of root what `auth_root_allowed` (`auth.c:342`) tests. With
  forced-commands-only that is whether a command is in force, which is set when a key
  is asked about (`monitor.c:1182`, `monitor_wrap.c:419`), not when it signs.
  `sshd_config.5:911` describes the option by the method that root uses; no property
  claims this.
* `SshAuth` leaves out two kinds of configurations with lists of methods, in which
  the lists of child and monitor may differ so that a correct login is refused: with
  `PermitEmptyPasswords`, because the monitor calls a first empty password "none"
  (`monitor.c:891`) where the child says "password"; and with `PermitRootLogin`
  forced-commands-only or no, because the monitor updates its lists before its root
  check and the child after it.

## Not modelled

* The rest of OpenSSH (by far the largest part of the repository): packets and key
  exchange, ciphers, agent, sftp, multiplexing, forwarding of X11 and listeners,
  protocol 1, PAM, configuration and the portability layer. It is vendored and
  unchanged; the two modelled parts are the ones where separate processes or hosts
  keep state that must agree. Most of the rest is sequential: parsing, encoding,
  arithmetic on keys.
* The rest of Redis, unchanged, and `smem4redis_old.c`, which is not built.
* The older version of the ffmpeg devices, whose timestamps differ in detail, the
  conversion tables, and what is in the streams that are built from the stream
  information.
* The segment report of `smem.c` and the stand-alone shared-memory library: thin
  calls of the kernel.
* The downloader (`mitmproxy`) and the domain name watcher (`yuming`): short
  sequential scripts whose state is in databases and web services that are not in
  the repository; a model would be of those.
* Scripts, exercises and skeletons that only read and print.
