------------------------------ MODULE SmemPool ------------------------------
(***************************************************************************)
(* The table of shared-memory buffers kept by the modified Redis server    *)
(* (redis/src/smem4redis.c over redis/src/smem.c).                         *)
(*                                                                         *)
(* The server is single threaded: a command handler, or one pass of the    *)
(* cron function, is one atomic step.  A buffer is a System V segment with *)
(* a descriptor (struct smem_t).  The descriptor is either in the dict     *)
(* smempubsub_memorys ("used"), in the list of its size in the dict        *)
(* smempubsub_memorys_available ("available"), or nowhere ("none").        *)
(*                                                                         *)
(* last_time is kept as an age: the whole seconds since last_time, up to   *)
(* Timeout + 1, because the code only compares it with the timeout.  A     *)
(* list of available buffers is in the order of release, so its head is a  *)
(* descriptor of greatest age.                                             *)
(*                                                                         *)
(* Some definitions are preceded by a variant with a plausible mistake;    *)
(* the variants are not used by the specification.                         *)
(***************************************************************************)
EXTENDS Integers, FiniteSets

CONSTANTS
  Ids,          \* identifiers that shmget can return
  Requests,     \* sizes that clients ask for with SMEMGET
  Page,         \* alignment of a buffer's size (4096)
  MaxSmemSize,  \* MAX_SMEM_SIZE, the largest segment
  Limit,        \* server.share_memory_limit
  ListMax,      \* a list longer than this takes no more buffers (20)
  FreeTries,    \* failed removals after which a descriptor is dropped (5)
  Timeout,      \* argument of smemFreeShareMemory, in seconds (5)
  SizeModulus,  \* range of share_memory_size, a size_t (2^64)
  MaxReceivers, \* bound: most subscribers of a channel
  MaxCnt        \* bound: greatest use count of a buffer

\* Ids are ints and a channel has finitely many subscribers; the counter is
\* much wider than the memory that it counts.
ASSUME PoolConstants ==
  /\ IsFiniteSet(Ids)
  /\ Requests \subseteq Int
  /\ Page \in Nat \ {0}
  /\ MaxSmemSize \in Nat /\ Limit \in Nat /\ ListMax \in Nat
  /\ FreeTries \in Nat /\ Timeout \in Nat /\ MaxReceivers \in Nat
  /\ MaxCnt \in Nat \ {0}
  /\ SizeModulus \in Nat
  /\ Limit + MaxSmemSize < SizeModulus

VARIABLES
  segsize,           \* size of the kernel's segment with that id, 0 if none
  smem,              \* the descriptors
  share_memory_size  \* server.share_memory_size

pvars == <<segsize, smem, share_memory_size>>

Smem == [state : {"none", "available", "used"}, size : 0..MaxSmemSize,
         cnt : 0..MaxCnt, free_cnt : 0..FreeTries, age : 0..(Timeout + 1)]

NoSmem == [state |-> "none", size |-> 0, cnt |-> 0, free_cnt |-> 0, age |-> 0]

Tracked == {id \in Ids : smem[id].state # "none"}
Used == {id \in Ids : smem[id].state = "used"}
Segments == {id \in Ids : segsize[id] > 0}

\* The list of available buffers of one size.
available_list(size) ==
  {id \in Ids : smem[id].state = "available" /\ smem[id].size = size}

\* The sum of f over S, as the number of (id, byte) pairs.
TotalSize(f, S) == Cardinality(UNION {{id} \X (1..f[id]) : id \in S})

SizeOf(t) == [id \in Ids |-> t[id].size]

\* Arithmetic on share_memory_size wraps around.
Wrap(n) == n % SizeModulus

SMEMALIGN(x) == ((x + Page - 1) \div Page) * Page
-----------------------------------------------------------------------------
PoolInit ==
  /\ segsize = [id \in Ids |-> 0]
  /\ smem = [id \in Ids |-> NoSmem]
  /\ share_memory_size = 0

\* shmctl(IPC_RMID) succeeds exactly when the segment exists.
smem_free_buffer(id) == segsize' = [segsize EXCEPT ![id] = 0]

InUse(size) ==
  [state |-> "used", size |-> size, cnt |-> 1, free_cnt |-> 0, age |-> 0]

\* SMEMGET from the list of that size: its head.
GetAvailable(size, id) ==
  /\ id \in available_list(size)
  /\ \A other \in available_list(size) : smem[other].age <= smem[id].age
  /\ smem' = [smem EXCEPT ![id] = InUse(size)]
  /\ UNCHANGED <<segsize, share_memory_size>>

\* The test against share_memory_limit.
TestedBeforeAdding(size) == share_memory_size <= Limit
FitsLimit(size) == Wrap(share_memory_size + size) <= Limit

\* SMEMGET of a new segment.  The kernel does not give out an id that exists,
\* nor, its sequence numbers being long, one that the server still tracks.  An
\* id 0 is returned to the kernel and asked for again, so id is never 0.
GetNew(size, id) ==
  /\ available_list(size) = {}
  /\ FitsLimit(size)
  /\ size > 0 /\ size <= MaxSmemSize
  /\ id \in Ids \ (Segments \cup Tracked)
  /\ segsize' = [segsize EXCEPT ![id] = size]
  /\ smem' = [smem EXCEPT ![id] = InUse(size)]
  /\ share_memory_size' = Wrap(share_memory_size + size)

smemgetCommand(request, id) ==
  LET size == SMEMALIGN(request)
  IN  GetAvailable(size, id) \/ GetNew(size, id)

NotRefunded(size) == share_memory_size
Refunded(size) == Wrap(share_memory_size - size)

FullOneLater(size) == Cardinality(available_list(size)) > ListMax + 1
ListFull(size) == Cardinality(available_list(size)) > ListMax

ReleasedUncounted(m) == [m EXCEPT !.state = "available", !.age = 0]
Released(m) ==
  [state |-> "available", size |-> m.size, cnt |-> 0,
   free_cnt |-> m.free_cnt, age |-> 0]

\* The end of smemfreeCommand and of smempubsubPublishMessage, for a buffer
\* that nobody uses any more: back to the list of its size, or to the kernel
\* when that list is long.
Recycle(id) ==
  IF ListFull(smem[id].size)
  THEN /\ share_memory_size' = Refunded(smem[id].size)
       /\ smem_free_buffer(id)
       /\ smem' = [smem EXCEPT ![id] = NoSmem]
  ELSE /\ smem' = [smem EXCEPT ![id] = Released(smem[id])]
       /\ UNCHANGED <<segsize, share_memory_size>>

UnusedTooEarly(cnt) == cnt <= 1
Unused(cnt) == cnt <= 0

\* The use count changes by d; at zero the buffer is recycled.
AddCnt(id, d) ==
  /\ id \in Used
  /\ smem[id].cnt + d <= MaxCnt
  /\ IF Unused(smem[id].cnt + d)
     THEN Recycle(id)
     ELSE /\ smem' = [smem EXCEPT ![id].cnt = @ + d]
          /\ UNCHANGED <<segsize, share_memory_size>>

\* SMEMFREE of one id; an id that is not in smempubsub_memorys is ignored.
\* With several ids the handler does this for each of them in turn.
smemfreeCommand(id) == AddCnt(id, -1)

\* SMEMPUBLISH of a buffer to a channel with that many receivers: one use for
\* each of them, and the publisher's own use ends.
CountedOnce(id, receivers) == AddCnt(id, 0)
PublisherKept(id, receivers) == AddCnt(id, receivers)
smempublishCommand(id, receivers) == AddCnt(id, receivers - 1)

\* SMEMRM: the segment goes.  The handler looks for the descriptor in the
\* list smem_list_available, to which no code adds, so the table stays.
smemrmCommand(id) ==
  /\ id \in Segments
  /\ smem_free_buffer(id)
  /\ UNCHANGED <<smem, share_memory_size>>

ExpiredAvailable == {id \in Tracked \ Used : smem[id].age > Timeout}
Expired == {id \in Tracked : smem[id].age > Timeout}

\* What the pass leaves of an expired descriptor.
AfterFree(id) ==
  IF id \in Segments \/ smem[id].free_cnt + 1 > FreeTries
  THEN NoSmem
  ELSE [smem[id] EXCEPT !.free_cnt = @ + 1]

\* One pass of the cron: every expired buffer, used or available, is taken
\* off the count and removed from the kernel.
smemFreeShareMemory ==
  /\ share_memory_size' =
       Wrap(share_memory_size - TotalSize(SizeOf(smem), Expired))
  /\ segsize' = [id \in Ids |-> IF id \in Expired THEN 0 ELSE segsize[id]]
  /\ smem' = [id \in Ids |-> IF id \in Expired THEN AfterFree(id) ELSE smem[id]]

\* server.unixtime advances by a second.
Tick ==
  /\ smem' = [id \in Ids |->
                IF id \in Tracked /\ smem[id].age <= Timeout
                THEN [smem[id] EXCEPT !.age = @ + 1]
                ELSE smem[id]]
  /\ UNCHANGED <<segsize, share_memory_size>>

\* The server process ends and is started again: the tables are empty, the
\* kernel keeps the segments.
Restart ==
  /\ smem' = [id \in Ids |-> NoSmem]
  /\ share_memory_size' = 0
  /\ UNCHANGED segsize
-----------------------------------------------------------------------------
\* What the client library, the devices and the cron do.
PoolNext ==
  \/ \E r \in Requests, id \in Ids : smemgetCommand(r, id)
  \/ \E id \in Ids : smemfreeCommand(id)
  \/ \E id \in Ids, n \in 0..MaxReceivers : smempublishCommand(id, n)
  \/ smemFreeShareMemory
  \/ Tick

\* With an operator's SMEMRM, and with restarts of the server, as well.
PoolRmNext == PoolNext \/ \E id \in Ids : smemrmCommand(id)

PoolSpec == PoolInit /\ [][PoolNext]_pvars
PoolRmSpec == PoolInit /\ [][PoolRmNext]_pvars
PoolAdminSpec == PoolInit /\ [][PoolRmNext \/ Restart]_pvars

\* The clock runs and the server's timer event fires every five seconds.
PoolFairSpec ==
  PoolAdminSpec /\ WF_pvars(Tick) /\ WF_pvars(smemFreeShareMemory)
-----------------------------------------------------------------------------
\* The type invariant of the table.
PoolTypeOK ==
  /\ segsize \in [Ids -> 0..MaxSmemSize]
  /\ smem \in [Ids -> Smem]
  /\ share_memory_size \in 0..(SizeModulus - 1)

\* share_memory_size is the memory that the kernel holds for the server: get,
\* the recycling of free and publish, and the cron keep the count exact.
Accounted == share_memory_size = TotalSize(segsize, Ids)

\* The segments that exist never take more than share_memory_limit.
LimitRespected == TotalSize(segsize, Ids) <= Limit

\* A descriptor stands for a segment of its size, and every segment has one.
TableMatchesKernel == SizeOf(smem) = segsize

\* A descriptor is in smempubsub_memorys exactly while its use count is
\* positive, whatever is removed or restarted in between.
CountsMatchState ==
  \A id \in Ids : id \in Used <=> smem[id].cnt > 0

\* The list of one size never holds more than ListMax + 1 buffers: recycling
\* tests the length before it adds.
ListsBounded ==
  \A size \in 0..MaxSmemSize : Cardinality(available_list(size)) <= ListMax + 1

\* A buffer leaves smempubsub_memorys only through its last user, by free or
\* by publish, or because nobody got it anew for longer than the timeout.
OnlyLastUserReleases ==
  [][\A id \in Used : id \notin Used' =>
       smem[id].cnt = 1 \/ smem[id].age > Timeout]_pvars

\* A buffer whose users vanished is taken back: by the cron, also when its
\* segment was removed behind the server's back and each removal fails.
UsedComesBack == \A id \in Ids : id \in Used ~> id \notin Used
=============================================================================
