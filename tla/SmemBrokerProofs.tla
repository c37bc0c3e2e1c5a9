-------------------------- MODULE SmemBrokerProofs --------------------------
(***************************************************************************)
(* Proofs about the buffers of the server: its table (SmemPool) alone, and *)
(* with the subscriptions and the processes around it (SmemBroker).        *)
(***************************************************************************)
EXTENDS SmemBroker, SmemPartProofs, FiniteSetTheorems

-----------------------------------------------------------------------------
(***************************************************************************)
(* The buffer table of module SmemPool, for every set of ids, every limit  *)
(* and every bound.                                                        *)
(***************************************************************************)

Bytes(f, S) == UNION {{id} \X (1..f[id]) : id \in S}

\* Membership in the set of bytes that TotalSize counts.
LEMMA BytesMember ==
  ASSUME NEW f, NEW S, NEW p
  PROVE  p \in Bytes(f, S) <=> \E id \in S : \E b \in 1..f[id] : p = <<id, b>>
BY DEF Bytes

\* The bytes of finitely many segments of bounded size are finitely many, so
\* their total is a natural number.
LEMMA BytesFinite ==
  ASSUME NEW f \in [Ids -> 0..MaxSmemSize], NEW S \in SUBSET Ids
  PROVE  IsFiniteSet(Bytes(f, S)) /\ TotalSize(f, S) \in Nat
<1>1. IsFiniteSet(Ids \X (1..MaxSmemSize))
  <2>1. IsFiniteSet(1..MaxSmemSize)
    BY FS_Interval, PoolConstants
  <2> QED BY <2>1, FS_Product, PoolConstants, Zenon
<1>2. Bytes(f, S) \subseteq Ids \X (1..MaxSmemSize)
  <2> SUFFICES ASSUME NEW p \in Bytes(f, S)
               PROVE  p \in Ids \X (1..MaxSmemSize)
    OBVIOUS
  <2>1. PICK id \in S : \E b \in 1..f[id] : p = <<id, b>>
    BY BytesMember
  <2>2. 1..f[id] \subseteq 1..MaxSmemSize
    BY PoolConstants
  <2> QED BY <2>1, <2>2
<1>3. IsFiniteSet(Bytes(f, S))
  BY <1>1, <1>2, FS_Subset
<1> QED BY <1>3, FS_CardinalityType DEF TotalSize, Bytes

\* One segment counts for its size.
LEMMA TotalOfOne ==
  ASSUME NEW f \in [Ids -> 0..MaxSmemSize], NEW id \in Ids
  PROVE  TotalSize(f, {id}) = f[id]
<1>1. TotalSize(f, {id}) = Cardinality({id} \X (1..f[id]))
  BY DEF TotalSize
<1>2. IsFiniteSet(1..f[id]) /\ Cardinality(1..f[id]) = f[id]
  BY FS_Interval, PoolConstants
<1>3. IsFiniteSet({id}) /\ Cardinality({id}) = 1
  BY FS_Singleton, Zenon
<1>4. Cardinality({id} \X (1..f[id])) = 1 * f[id]
  BY <1>2, <1>3, FS_Product, SMTT(40)
<1> QED BY <1>1, <1>4, PoolConstants

\* Removing the segments of S takes their total off the total.
LEMMA TotalRemove ==
  ASSUME NEW f \in [Ids -> 0..MaxSmemSize], NEW S \in SUBSET Ids,
         NEW g \in [Ids -> 0..MaxSmemSize],
         g = [id \in Ids |-> IF id \in S THEN 0 ELSE f[id]]
  PROVE  TotalSize(g, Ids) = TotalSize(f, Ids) - TotalSize(f, S)
<1>1. Bytes(f, Ids) = Bytes(f, S) \cup Bytes(g, Ids)
  <2>1. ASSUME NEW p \in Bytes(f, Ids) PROVE p \in Bytes(f, S) \cup Bytes(g, Ids)
    <3>1. PICK id \in Ids : \E b \in 1..f[id] : p = <<id, b>>
      BY <2>1, BytesMember
    <3>2. CASE id \in S
      BY <3>1, <3>2, BytesMember
    <3>3. CASE id \notin S
      <4>1. g[id] = f[id]
        BY <3>3
      <4> QED BY <4>1, <3>1, BytesMember
    <3> QED BY <3>2, <3>3
  <2>2. ASSUME NEW p \in Bytes(f, S) PROVE p \in Bytes(f, Ids)
    BY <2>2, BytesMember
  <2>3. ASSUME NEW p \in Bytes(g, Ids) PROVE p \in Bytes(f, Ids)
    <3>1. PICK id \in Ids : \E b \in 1..g[id] : p = <<id, b>>
      BY <2>3, BytesMember
    <3>2. 1..g[id] \subseteq 1..f[id]
      BY PoolConstants
    <3> QED BY <3>1, <3>2, BytesMember
  <2> QED BY <2>1, <2>2, <2>3
<1>2. Bytes(f, S) \cap Bytes(g, Ids) = {}
  <2> SUFFICES ASSUME NEW p \in Bytes(f, S), p \in Bytes(g, Ids)
               PROVE  FALSE
    OBVIOUS
  <2>1. PICK id \in S : \E b \in 1..f[id] : p = <<id, b>>
    BY BytesMember
  <2>2. PICK i \in Ids : \E c \in 1..g[i] : p = <<i, c>>
    BY BytesMember
  <2>3. i = id /\ g[i] = 0
    BY <2>1, <2>2
  <2> QED BY <2>2, <2>3
<1>3. Cardinality(Bytes(f, Ids)) =
        Cardinality(Bytes(f, S)) + Cardinality(Bytes(g, Ids)) - Cardinality({})
  BY <1>1, <1>2, BytesFinite, FS_Union
<1>4. /\ TotalSize(f, Ids) = Cardinality(Bytes(f, Ids))
      /\ TotalSize(f, S) = Cardinality(Bytes(f, S))
      /\ TotalSize(g, Ids) = Cardinality(Bytes(g, Ids))
  BY DEF TotalSize, Bytes
<1>5. TotalSize(f, Ids) \in Nat /\ TotalSize(f, S) \in Nat
      /\ TotalSize(g, Ids) \in Nat
  BY BytesFinite
<1> QED BY <1>3, <1>4, <1>5, FS_EmptySet

\* A new segment adds its size to the total.
LEMMA TotalAdd ==
  ASSUME NEW f \in [Ids -> 0..MaxSmemSize], NEW id \in Ids, f[id] = 0,
         NEW n \in 0..MaxSmemSize
  PROVE  TotalSize([f EXCEPT ![id] = n], Ids) = TotalSize(f, Ids) + n
<1> DEFINE g == [f EXCEPT ![id] = n]
<1>1. g \in [Ids -> 0..MaxSmemSize]
  OBVIOUS
<1>2. f = [i \in Ids |-> IF i \in {id} THEN 0 ELSE g[i]]
  BY PoolConstants
<1>3. TotalSize(f, Ids) = TotalSize(g, Ids) - TotalSize(g, {id})
  BY <1>1, <1>2, TotalRemove, ZenonT(40)
<1>4. TotalSize(g, {id}) = n
  BY <1>1, TotalOfOne, Zenon
<1>5. TotalSize(g, Ids) \in Nat
  <2> HIDE DEF g
  <2> QED BY <1>1, BytesFinite
<1> QED BY <1>3, <1>4, <1>5, PoolConstants
-----------------------------------------------------------------------------
\* Sizes that pass the test of smem_get_buffer give a well-typed descriptor.
LEMMA InUseType ==
  ASSUME NEW size \in 0..MaxSmemSize
  PROVE  InUse(size) \in Smem
BY PoolConstants DEF InUse, Smem

\* A descriptor that was given up is well typed.
LEMMA NoSmemType == NoSmem \in Smem
BY PoolConstants DEF NoSmem, Smem

\* The count stays within a size_t, whatever is added or subtracted.
LEMMA WrapType ==
  ASSUME NEW n \in Int
  PROVE  Wrap(n) \in 0..(SizeModulus - 1)
<1>1. SizeModulus \in Nat /\ SizeModulus > 0
  BY PoolConstants
<1> QED BY <1>1 DEF Wrap

\* SMEMALIGN of a requested size is an integer.
LEMMA AlignType ==
  ASSUME NEW x \in Int
  PROVE  SMEMALIGN(x) \in Int
<1>1. Page \in Nat /\ Page > 0
  BY PoolConstants
<1>2. (x + Page - 1) \div Page \in Int
  BY <1>1
<1> QED BY <1>1, <1>2 DEF SMEMALIGN

\* Every step, an operator's SMEMRM and a restart included, keeps the types.
LEMMA TypeStep ==
  ASSUME PoolTypeOK, [PoolRmNext \/ Restart]_pvars
  PROVE  PoolTypeOK'
<1> USE DEF PoolTypeOK
<1>1. ASSUME NEW r \in Requests, NEW id \in Ids, smemgetCommand(r, id)
      PROVE  PoolTypeOK'
  <2> DEFINE size == SMEMALIGN(r)
  <2>1. size \in Int
    BY AlignType, PoolConstants
  <2>2. CASE GetAvailable(size, id)
    <3>1. size \in 0..MaxSmemSize
      BY <2>2 DEF GetAvailable, available_list, Smem
    <3> QED BY <2>2, <3>1, InUseType, SMTT(30) DEF GetAvailable
  <2>3. CASE GetNew(size, id)
    <3>1. size \in 0..MaxSmemSize
      BY <2>1, <2>3, PoolConstants, SMTT(30) DEF GetNew
    <3>2. share_memory_size' \in 0..(SizeModulus - 1)
      BY <2>1, <2>3, WrapType, PoolConstants, SMTT(30) DEF GetNew
    <3> QED BY <2>3, <3>1, <3>2, InUseType DEF GetNew
  <2> QED BY <1>1, <2>2, <2>3 DEF smemgetCommand
<1>2. ASSUME NEW id \in Ids, NEW d \in Int, AddCnt(id, d)
      PROVE  PoolTypeOK'
  <2>1. CASE Unused(smem[id].cnt + d)
    <3>1. Recycle(id)
      BY <1>2, <2>1 DEF AddCnt
    <3>2. CASE ListFull(smem[id].size)
      <4>1. share_memory_size' \in 0..(SizeModulus - 1)
        BY <3>1, <3>2, WrapType, PoolConstants, SMTT(30) DEF Recycle, Refunded, Smem
      <4>2. segsize' \in [Ids -> 0..MaxSmemSize]
        BY <3>1, <3>2, PoolConstants DEF Recycle, smem_free_buffer
      <4> QED BY <3>1, <3>2, <4>1, <4>2, NoSmemType, Zenon DEF Recycle
    <3>3. CASE ~(ListFull(smem[id].size))
      BY <3>1, <3>3, PoolConstants DEF Recycle, Released, Smem
    <3> QED BY <3>2, <3>3
  <2>2. CASE ~(Unused(smem[id].cnt + d))
    <3>1. smem[id].cnt + d \in 0..MaxCnt
      BY <1>2, <2>2, PoolConstants DEF AddCnt, Unused, Smem
    <3> QED BY <1>2, <2>2, <3>1 DEF AddCnt, Smem
  <2> QED BY <2>1, <2>2
<1>3. ASSUME smemFreeShareMemory
      PROVE  PoolTypeOK'
  <2>1. SizeOf(smem) \in [Ids -> 0..MaxSmemSize]
    BY SMTT(40) DEF SizeOf, Smem
  <2>2. TotalSize(SizeOf(smem), Expired) \in Nat
    BY <2>1, BytesFinite DEF Expired, Tracked
  <2>3. share_memory_size' \in 0..(SizeModulus - 1)
    BY <1>3, <2>2, WrapType, PoolConstants DEF smemFreeShareMemory
  <2>4. ASSUME NEW id \in Ids PROVE AfterFree(id) \in Smem
    BY NoSmemType, PoolConstants DEF AfterFree, Smem
  <2>5. segsize' \in [Ids -> 0..MaxSmemSize]
    BY <1>3, PoolConstants DEF smemFreeShareMemory
  <2> QED BY <1>3, <2>3, <2>4, <2>5, SMTT(30) DEF smemFreeShareMemory
<1>4. ASSUME Tick
      PROVE  PoolTypeOK'
  BY <1>4, PoolConstants DEF Tick, Smem
<1>5. ASSUME NEW id \in Ids, smemrmCommand(id)
      PROVE  PoolTypeOK'
  BY <1>5, PoolConstants DEF smemrmCommand, smem_free_buffer
<1>6. ASSUME Restart
      PROVE  PoolTypeOK'
  BY <1>6, NoSmemType, PoolConstants DEF Restart
<1>7. CASE UNCHANGED pvars
  BY <1>7 DEF pvars
<1> HIDE DEF PoolTypeOK
<1>8. ASSUME NEW id \in Ids, smemfreeCommand(id)
      PROVE  PoolTypeOK'
  BY <1>2, <1>8 DEF smemfreeCommand
<1>9. ASSUME NEW id \in Ids, NEW n \in 0..MaxReceivers,
             smempublishCommand(id, n)
      PROVE  PoolTypeOK'
  <2>1. n - 1 \in Int
    OBVIOUS
  <2> QED BY <1>2, <1>9, <2>1, Zenon DEF smempublishCommand
<1> QED
  BY <1>1, <1>3, <1>4, <1>5, <1>6, <1>7, <1>8, <1>9, Zenon
  DEF PoolRmNext, PoolNext

\* The type invariant of the table, restarts and SMEMRM included.
THEOREM PoolTypes == PoolAdminSpec => []PoolTypeOK
<1>1. PoolInit => PoolTypeOK
  BY NoSmemType, PoolConstants DEF PoolInit, PoolTypeOK
<1>2. PoolTypeOK /\ [PoolRmNext \/ Restart]_pvars => PoolTypeOK'
  BY TypeStep
<1> QED BY <1>1, <1>2, PTL DEF PoolAdminSpec
-----------------------------------------------------------------------------
\* Every step keeps the use counts and the states of the descriptors in step.
LEMMA CountsStep ==
  ASSUME PoolTypeOK, CountsMatchState, [PoolRmNext \/ Restart]_pvars
  PROVE  CountsMatchState'
<1> USE DEF PoolTypeOK, CountsMatchState, Used
<1>1. ASSUME NEW r \in Requests, NEW id \in Ids, smemgetCommand(r, id)
      PROVE  CountsMatchState'
  BY <1>1, SMTT(40) DEF smemgetCommand, GetAvailable, GetNew, InUse
<1>2. ASSUME NEW id \in Ids, NEW d \in Int, AddCnt(id, d)
      PROVE  CountsMatchState'
  <2>1. CASE Unused(smem[id].cnt + d)
    <3>1. \/ smem' = [smem EXCEPT ![id] = NoSmem]
          \/ smem' = [smem EXCEPT ![id] = Released(smem[id])]
      BY <1>2, <2>1 DEF AddCnt, Recycle
    <3> QED BY <3>1 DEF NoSmem, Released, Smem
  <2>2. CASE ~(Unused(smem[id].cnt + d))
    BY <1>2, <2>2 DEF AddCnt, Unused, Smem
  <2> QED BY <2>1, <2>2, SMTT(40)
<1>3. ASSUME smemFreeShareMemory
      PROVE  CountsMatchState'
  BY <1>3 DEF smemFreeShareMemory, AfterFree, NoSmem, Smem
<1>4. ASSUME Tick
      PROVE  CountsMatchState'
  BY <1>4 DEF Tick, Smem
<1>5. ASSUME NEW id \in Ids, smemrmCommand(id)
      PROVE  CountsMatchState'
  BY <1>5, SMTT(40) DEF smemrmCommand
<1>6. ASSUME Restart
      PROVE  CountsMatchState'
  BY <1>6 DEF Restart, NoSmem
<1>7. CASE UNCHANGED pvars
  BY <1>7 DEF pvars
<1> HIDE DEF PoolTypeOK, CountsMatchState, Used
<1>8. ASSUME NEW id \in Ids, smemfreeCommand(id)
      PROVE  CountsMatchState'
  BY <1>2, <1>8 DEF smemfreeCommand
<1>9. ASSUME NEW id \in Ids, NEW n \in 0..MaxReceivers,
             smempublishCommand(id, n)
      PROVE  CountsMatchState'
  <2>1. n - 1 \in Int
    OBVIOUS
  <2> QED BY <1>2, <1>9, <2>1, Zenon DEF smempublishCommand
<1> QED
  BY <1>1, <1>3, <1>4, <1>5, <1>6, <1>7, <1>8, <1>9, Zenon
  DEF PoolRmNext, PoolNext

\* A buffer is in smempubsub_memorys exactly while its use count is positive:
\* no order of get, publish, free, cron, SMEMRM and restart leaves a counted
\* buffer out of the dict, or an uncounted one in it.
THEOREM CountsAlwaysMatch == PoolAdminSpec => []CountsMatchState
<1>1. PoolInit => CountsMatchState
  BY DEF PoolInit, CountsMatchState, Used, NoSmem
<1>2. PoolTypeOK /\ CountsMatchState /\ [PoolRmNext \/ Restart]_pvars
        => CountsMatchState'
  BY CountsStep
<1> QED BY <1>1, <1>2, PoolTypes, PTL DEF PoolAdminSpec
-----------------------------------------------------------------------------
\* The inductive invariant behind the accounting.  The count alone is not
\* inductive: the cron subtracts the sizes in the descriptors, so these must
\* be the sizes of the segments, and it forgets a descriptor only when the
\* segment existed, so every descriptor must have one.
AccountInv ==
  /\ PoolTypeOK
  /\ TableMatchesKernel
  /\ \A id \in Ids : smem[id].state = "none" <=> smem[id].size = 0
  /\ Accounted
  /\ share_memory_size <= Limit

\* Subtraction of a part of the count does not wrap around.
LEMMA WrapId ==
  ASSUME NEW n \in Nat, n < SizeModulus
  PROVE  Wrap(n) = n
BY PoolConstants DEF Wrap

\* Taking the segments of S from the kernel and from the table together, and
\* their sizes off the count, keeps the accounts.
LEMMA RemoveKeepsAccounts ==
  ASSUME AccountInv, PoolTypeOK', NEW S \in SUBSET Ids,
         share_memory_size' = Wrap(share_memory_size - TotalSize(SizeOf(smem),
                                                                 S)),
         segsize' = [id \in Ids |-> IF id \in S THEN 0 ELSE segsize[id]],
         \A id \in Ids : smem'[id] = IF id \in S THEN NoSmem ELSE smem[id]
  PROVE  AccountInv'
<1> USE DEF PoolTypeOK, AccountInv
<1>1. SizeOf(smem) = segsize
  BY DEF TableMatchesKernel
<1>2. TotalSize(segsize', Ids) = TotalSize(segsize, Ids) - TotalSize(segsize, S)
  BY TotalRemove
<1>3. /\ TotalSize(segsize, Ids) \in Nat
      /\ TotalSize(segsize, S) \in Nat
      /\ TotalSize(segsize', Ids) \in Nat
  BY BytesFinite
<1>4. share_memory_size - TotalSize(segsize, S) = TotalSize(segsize', Ids)
  BY <1>2, <1>3, SMTT(40) DEF Accounted
<1>5. share_memory_size' = TotalSize(segsize', Ids) /\ share_memory_size' <= Limit
  BY <1>1, <1>3, <1>4, WrapId, PoolConstants, SMTT(30)
<1>6. SizeOf(smem') = segsize'
  BY <1>1 DEF SizeOf, NoSmem
<1>7. \A id \in Ids : smem'[id].state = "none" <=> smem'[id].size = 0
  BY DEF NoSmem
<1> QED BY <1>5, <1>6, <1>7 DEF Accounted, TableMatchesKernel

\* Get, free, publish, the cron and the clock keep the accounts.
LEMMA AccountStep ==
  ASSUME AccountInv, [PoolNext]_pvars
  PROVE  AccountInv'
<1> USE DEF AccountInv
<1>0. PoolTypeOK'
  BY TypeStep DEF PoolRmNext
<1>1. ASSUME NEW r \in Requests, NEW id \in Ids, smemgetCommand(r, id)
      PROVE  AccountInv'
  <2> DEFINE size == SMEMALIGN(r)
  <2>1. CASE GetAvailable(size, id)
    <3>1. SizeOf(smem') = SizeOf(smem)
      BY <2>1, SMTT(40) DEF GetAvailable, available_list, SizeOf, InUse, PoolTypeOK
    <3>2. \A i \in Ids : smem'[i].state = "none" <=> smem'[i].size = 0
      BY <2>1, SMTT(40) DEF GetAvailable, available_list, InUse, PoolTypeOK
    <3> QED BY <1>0, <2>1, <3>1, <3>2, SMTT(30)
        DEF GetAvailable, Accounted, TableMatchesKernel
  <2>2. CASE GetNew(size, id)
    <3>1. size \in 1..MaxSmemSize
      BY <2>2, AlignType, PoolConstants, SMTT(30) DEF GetNew
    <3>2. segsize[id] = 0
      BY <2>2 DEF GetNew, Segments, PoolTypeOK
    <3>3. TotalSize(segsize', Ids) = TotalSize(segsize, Ids) + size
      <4>1. segsize' = [segsize EXCEPT ![id] = size]
        BY <2>2 DEF GetNew
      <4>2. size \in 0..MaxSmemSize
        BY <3>1
      <4> HIDE DEF size
      <4> QED BY <3>2, <4>1, <4>2, TotalAdd, Zenon DEF PoolTypeOK
    <3>4. share_memory_size' = share_memory_size + size
      BY <2>2, <3>1, WrapId, PoolConstants, SMTT(30) DEF GetNew, FitsLimit, PoolTypeOK
    <3>5. share_memory_size' <= Limit
      BY <2>2, <3>4 DEF GetNew, FitsLimit
    <3>6. SizeOf(smem') = segsize'
      BY <2>2, ZenonT(40) DEF GetNew, SizeOf, InUse, PoolTypeOK, TableMatchesKernel
    <3>7. \A i \in Ids : smem'[i].state = "none" <=> smem'[i].size = 0
      BY <2>2, <3>1 DEF GetNew, InUse, PoolTypeOK
    <3> QED BY <1>0, <3>3, <3>4, <3>5, <3>6, <3>7, SMTT(30)
        DEF Accounted, TableMatchesKernel
  <2> QED BY <1>1, <2>1, <2>2, ZenonT(40) DEF smemgetCommand
<1>2. ASSUME NEW id \in Ids, NEW d \in Int, AddCnt(id, d)
      PROVE  AccountInv'
  <2>1. CASE /\ Unused(smem[id].cnt + d)
             /\ ListFull(smem[id].size)
    <3>1. /\ share_memory_size' = Wrap(share_memory_size - smem[id].size)
          /\ segsize' = [segsize EXCEPT ![id] = 0]
          /\ smem' = [smem EXCEPT ![id] = NoSmem]
      BY <1>2, <2>1 DEF AddCnt, Recycle, Refunded, smem_free_buffer
    <3>2. TotalSize(SizeOf(smem), {id}) = smem[id].size
      BY TotalOfOne DEF SizeOf, PoolTypeOK, Smem
    <3>3. share_memory_size' = Wrap(share_memory_size - TotalSize(SizeOf(smem),
                                                                  {id}))
      BY <3>1, <3>2
    <3>4. /\ segsize' = [i \in Ids |-> IF i \in {id} THEN 0 ELSE segsize[i]]
          /\ \A i \in Ids : smem'[i] = IF i \in {id} THEN NoSmem ELSE smem[i]
      BY <3>1, Zenon DEF PoolTypeOK
    <3> QED BY <1>0, <3>3, <3>4, RemoveKeepsAccounts, Zenon
  <2>2. CASE ~ /\ Unused(smem[id].cnt + d)
               /\ ListFull(smem[id].size)
    <3>1. /\ UNCHANGED <<segsize, share_memory_size>>
          /\ \/ smem' = [smem EXCEPT ![id] = Released(smem[id])]
             \/ smem' = [smem EXCEPT ![id].cnt = @ + d]
      BY <1>2, <2>2 DEF AddCnt, Recycle
    <3>2. smem[id].state = "used"
      BY <1>2 DEF AddCnt, Used
    <3>3. \A i \in Ids : /\ smem'[i].size = smem[i].size
                         /\ smem'[i].state = "none" <=> smem[i].state = "none"
      BY <3>1, <3>2 DEF PoolTypeOK, Released, Smem
    <3>4. SizeOf(smem') = SizeOf(smem)
      BY <3>3, SMTT(40) DEF SizeOf
    <3> QED BY <1>0, <3>1, <3>3, <3>4 DEF Accounted, TableMatchesKernel
  <2> QED BY <2>1, <2>2, ZenonT(40)
<1>3. ASSUME smemFreeShareMemory
      PROVE  AccountInv'
  <2>1. ASSUME NEW id \in Expired PROVE AfterFree(id) = NoSmem
    <3>1. id \in Ids /\ smem[id].size > 0
      BY DEF Expired, Tracked, PoolTypeOK, Smem
    <3>2. id \in Segments
      BY <3>1 DEF Segments, TableMatchesKernel, SizeOf
    <3> QED BY <3>2 DEF AfterFree
  <2>2. Expired \subseteq Ids
    BY SMTT(40) DEF Expired, Tracked
  <2>3. \A id \in Ids : smem'[id] = IF id \in Expired THEN NoSmem ELSE smem[id]
    BY <1>3, <2>1 DEF smemFreeShareMemory
  <2> QED BY <1>0, <1>3, <2>2, <2>3, RemoveKeepsAccounts, SMTT(30) DEF smemFreeShareMemory
<1>4. ASSUME Tick
      PROVE  AccountInv'
  <2>1. \A id \in Ids : /\ smem'[id].size = smem[id].size
                        /\ smem'[id].state = smem[id].state
    BY <1>4 DEF Tick, PoolTypeOK, Smem
  <2>2. SizeOf(smem') = SizeOf(smem)
    BY <2>1 DEF SizeOf
  <2> QED BY <1>0, <1>4, <2>1, <2>2 DEF Tick, Accounted, TableMatchesKernel
<1>5. CASE UNCHANGED pvars
  BY <1>0, <1>5 DEF pvars, Accounted, TableMatchesKernel
<1> HIDE DEF AccountInv
<1>6. ASSUME NEW id \in Ids, smemfreeCommand(id)
      PROVE  AccountInv'
  BY <1>2, <1>6 DEF smemfreeCommand
<1>7. ASSUME NEW id \in Ids, NEW n \in 0..MaxReceivers,
             smempublishCommand(id, n)
      PROVE  AccountInv'
  <2>1. n - 1 \in Int
    OBVIOUS
  <2> QED BY <1>2, <1>7, <2>1, Zenon DEF smempublishCommand
<1> QED
  BY <1>1, <1>3, <1>4, <1>5, <1>6, <1>7, Zenon DEF PoolNext

\* AccountInv holds of every behaviour of the clients' commands and the cron.
LEMMA AccountInvariant == PoolSpec => []AccountInv
<1>1. PoolInit => AccountInv
  <2> SUFFICES ASSUME PoolInit PROVE AccountInv
    OBVIOUS
  <2>1. PoolTypeOK
    BY NoSmemType, PoolConstants DEF PoolInit, PoolTypeOK
  <2>2. SizeOf(smem) = segsize
    BY DEF PoolInit, SizeOf, NoSmem
  <2>3. segsize = [id \in Ids |-> IF id \in Ids THEN 0 ELSE segsize[id]]
    BY DEF PoolInit
  <2>4. TotalSize(segsize, Ids) = TotalSize(segsize, Ids) - TotalSize(segsize,
                                                                      Ids)
    BY <2>1, <2>3, TotalRemove DEF PoolTypeOK
  <2>5. TotalSize(segsize, Ids) = 0
    BY <2>1, <2>4, BytesFinite DEF PoolTypeOK
  <2> QED BY <2>1, <2>2, <2>5, PoolConstants, SMTT(30)
      DEF PoolInit, AccountInv, Accounted, TableMatchesKernel, NoSmem
<1>2. AccountInv /\ [PoolNext]_pvars => AccountInv'
  BY AccountStep
<1> QED BY <1>1, <1>2, PTL DEF PoolSpec

\* Under every interleaving of SMEMGET, SMEMFREE, SMEMPUBLISH and the cron,
\* share_memory_size is the memory that the kernel holds for the server: the
\* subtractions of recycling and of the cron never wrap around.
THEOREM AccountsExact == PoolSpec => []Accounted
<1>1. AccountInv => Accounted
  BY DEF AccountInv
<1> QED BY <1>1, AccountInvariant, PTL

\* The test in smemgetCommand is enough to keep the server's segments within
\* share_memory_limit.
THEOREM LimitKept == PoolSpec => []LimitRespected
<1>1. AccountInv => LimitRespected
  BY DEF AccountInv, Accounted, LimitRespected
<1> QED BY <1>1, AccountInvariant, PTL

\* Every segment has a descriptor of its size and every descriptor a segment:
\* SMEMGET never replies with an id whose segment is gone.
THEOREM TableKept == PoolSpec => []TableMatchesKernel
<1>1. AccountInv => TableMatchesKernel
  BY DEF AccountInv
<1> QED BY <1>1, AccountInvariant, PTL
-----------------------------------------------------------------------------
\* A step that adds no buffer to a list keeps its bound.
LEMMA SubListBounded ==
  ASSUME NEW S \in SUBSET Ids, NEW T \in SUBSET S, Cardinality(S) <= ListMax + 1
  PROVE  Cardinality(T) <= ListMax + 1
<1>1. IsFiniteSet(S)
  BY FS_Subset, PoolConstants
<1>2. Cardinality(T) <= Cardinality(S) /\ IsFiniteSet(T)
  BY <1>1, FS_Subset
<1>3. Cardinality(S) \in Nat /\ Cardinality(T) \in Nat
  BY <1>1, <1>2, FS_CardinalityType, SMTT(30)
<1> QED BY <1>2, <1>3, PoolConstants

\* No step makes a list of available buffers longer than recycling allows.
LEMMA ListsStep ==
  ASSUME PoolTypeOK, ListsBounded, [PoolRmNext \/ Restart]_pvars,
         NEW size \in 0..MaxSmemSize
  PROVE  Cardinality(available_list(size)') <= ListMax + 1
<1> DEFINE L == available_list(size)
<1>0. L \in SUBSET Ids /\ Cardinality(L) <= ListMax + 1 /\ L' \in SUBSET Ids
  BY SMTT(40) DEF ListsBounded, available_list
<1>a. L' \subseteq L => Cardinality(L') <= ListMax + 1
  BY <1>0, SubListBounded, SMTT(40)
<1>1. ASSUME NEW r \in Requests, NEW id \in Ids, smemgetCommand(r, id)
      PROVE  L' \subseteq L
  BY <1>1 DEF smemgetCommand, GetAvailable, GetNew, InUse, available_list,
     PoolTypeOK
<1>2. ASSUME NEW id \in Ids, NEW d \in Int, AddCnt(id, d)
      PROVE  Cardinality(L') <= ListMax + 1
  <2>1. CASE \/ smem' = [smem EXCEPT ![id] = NoSmem]
             \/ smem' = [smem EXCEPT ![id].cnt = @ + d]
    <3>1. L' \subseteq L
      BY <2>1 DEF available_list, PoolTypeOK, NoSmem, Smem
    <3> QED BY <1>a, <3>1
  <2>2. CASE /\ smem' = [smem EXCEPT ![id] = Released(smem[id])]
             /\ ~(ListFull(smem[id].size))
    <3>1. CASE smem[id].size # size
      <4>1. L' \subseteq L
        BY <2>2, <3>1 DEF available_list, PoolTypeOK, Released, Smem
      <4> QED BY <1>a, <4>1
    <3>2. CASE smem[id].size = size
      <4>1. L' \subseteq L \cup {id}
        BY <2>2, <3>2 DEF available_list, PoolTypeOK, Released, Smem
      <4>2. IsFiniteSet(L)
        BY <1>0, FS_Subset, PoolConstants
      <4>3. Cardinality(L) \in Nat /\ Cardinality(L) <= ListMax
        BY <2>2, <3>2, <4>2, FS_CardinalityType, PoolConstants, SMTT(30) DEF ListFull
      <4>4. /\ IsFiniteSet(L \cup {id})
            /\ Cardinality(L \cup {id}) <= ListMax + 1
        <5> HIDE DEF L
        <5>1. /\ IsFiniteSet(L \cup {id})
              /\ Cardinality(L \cup {id}) =
                   IF id \in L THEN Cardinality(L) ELSE Cardinality(L) + 1
          BY <4>2, FS_AddElement
        <5> QED BY <4>3, <5>1, PoolConstants, SMTT(30)
      <4>5. L \cup {id} \in SUBSET Ids
        BY <1>0
      <4> QED BY <4>1, <4>4, <4>5, SubListBounded, SMTT(40)
    <3> QED BY <3>1, <3>2, SMTT(30)
  <2> QED BY <1>2, <2>1, <2>2 DEF AddCnt, Recycle
<1>3. ASSUME smemFreeShareMemory
      PROVE  L' \subseteq L
  BY <1>3 DEF smemFreeShareMemory, AfterFree, NoSmem, available_list, PoolTypeOK,
     Smem
<1>4. ASSUME Tick
      PROVE  L' \subseteq L
  BY <1>4, SMTT(40) DEF Tick, available_list, PoolTypeOK, Smem
<1>5. ASSUME Restart
      PROVE  L' \subseteq L
  BY <1>5 DEF Restart, NoSmem, available_list
<1>6. ASSUME UNCHANGED smem
      PROVE  L' \subseteq L
  BY <1>6, SMTT(30) DEF available_list
<1> QED
  BY <1>a, <1>1, <1>2, <1>3, <1>4, <1>5, <1>6, PoolConstants, SMTT(30)
  DEF PoolRmNext, PoolNext, smemfreeCommand, smempublishCommand, smemrmCommand,
  pvars

\* No sequence of releases makes the list of a size longer than ListMax + 1.
THEOREM ListsStayBounded == PoolAdminSpec => []ListsBounded
<1>1. PoolInit => ListsBounded
  <2> SUFFICES ASSUME PoolInit, NEW size \in 0..MaxSmemSize
               PROVE  Cardinality(available_list(size)) <= ListMax + 1
    BY SMTT(40) DEF ListsBounded
  <2>1. available_list(size) = {}
    BY DEF PoolInit, available_list, NoSmem
  <2> QED BY <2>1, FS_EmptySet, PoolConstants
<1>2. PoolTypeOK /\ ListsBounded /\ [PoolRmNext \/ Restart]_pvars => ListsBounded'
  BY ListsStep DEF ListsBounded
<1> QED BY <1>1, <1>2, PoolTypes, PTL DEF PoolAdminSpec
-----------------------------------------------------------------------------
\* A step without a restart takes a buffer out of smempubsub_memorys only when
\* its last user releases it or when it expired.
THEOREM LastUserReleases == PoolSpec => OnlyLastUserReleases
<1> DEFINE A == \A id \in Used : id \notin Used' =>
                  smem[id].cnt = 1 \/ smem[id].age > Timeout
<1>1. ASSUME PoolTypeOK, CountsMatchState, PoolNext
      PROVE  A
  <2> SUFFICES ASSUME NEW u \in Used, u \notin Used'
               PROVE  smem[u].cnt = 1 \/ smem[u].age > Timeout
    BY SMTT(40)
  <2> USE <1>1 DEF PoolTypeOK, Used
  <2>1. ASSUME NEW r \in Requests, NEW id \in Ids, smemgetCommand(r, id)
        PROVE  FALSE
    BY <2>1, SMTT(40) DEF smemgetCommand, GetAvailable, GetNew, InUse, available_list,
       Tracked
  <2>2. ASSUME NEW id \in Ids, smemfreeCommand(id)
        PROVE  smem[u].cnt = 1
    <3>1. u = id /\ smem[id].cnt - 1 <= 0
      BY <2>2, SMTT(40) DEF smemfreeCommand, AddCnt, Unused, Recycle, Smem
    <3> QED BY <3>1 DEF CountsMatchState, Smem
  <2>3. ASSUME NEW id \in Ids, NEW n \in 0..MaxReceivers,
               smempublishCommand(id, n)
        PROVE  smem[u].cnt = 1
    <3>1. u = id /\ smem[id].cnt + (n - 1) <= 0
      BY <2>3 DEF smempublishCommand, AddCnt, Unused, Recycle, Smem
    <3> QED BY <3>1, PoolConstants DEF CountsMatchState, Smem
  <2>4. ASSUME smemFreeShareMemory
        PROVE  smem[u].age > Timeout
    BY <2>4 DEF smemFreeShareMemory, Expired
  <2>5. ASSUME Tick
        PROVE  FALSE
    BY <2>5 DEF Tick, Smem
  <2> QED BY <1>1, <2>1, <2>2, <2>3, <2>4, <2>5, ZenonT(40) DEF PoolNext
<1>2. PoolTypeOK /\ CountsMatchState /\ [PoolNext]_pvars => [A]_pvars
  BY <1>1
<1>3. PoolSpec => PoolAdminSpec
  <2>1. [PoolNext]_pvars => [PoolRmNext \/ Restart]_pvars
    BY DEF PoolRmNext
  <2> QED BY <2>1, PTL DEF PoolSpec, PoolAdminSpec
<1> QED BY <1>2, <1>3, PoolTypes, CountsAlwaysMatch, PTL
    DEF PoolSpec, OnlyLastUserReleases

-----------------------------------------------------------------------------
(***************************************************************************)
(* SmemBroker, for any finite sets of producers and consumers and any      *)
(* pool: a buffer is never given to a producer while somebody else has it, *)
(* whoever vanishes, and however the cron runs.                            *)
(***************************************************************************)
\* The use count covers those who have buffer id.
Covered(id) ==
  /\ Writers(id) # {} =>
       Readers(id) = {} /\ Cardinality(Writers(id)) = 1
  /\ id \in Tracked =>
       Cardinality(Writers(id)) + Cardinality(Readers(id)) <= smem[id].cnt

\* The inductive invariant: the two components' own invariants, and for every
\* buffer that the use count covers those who have it.
BrokerInv ==
  /\ PoolTypeOK /\ CountsMatchState
  /\ DeviceInv
  /\ BrokerTypeOK
  /\ \A id \in Ids : Covered(id)
-----------------------------------------------------------------------------
\* The positions of a list of n receivers are n.
LEMMA IntervalSize ==
  ASSUME NEW n \in Nat
  PROVE  IsFiniteSet(1..n) /\ Cardinality(1..n) = n
<1>1. 1 \in Int /\ n \in Int
  OBVIOUS
<1>2. /\ IsFiniteSet(1..n)
      /\ Cardinality(1..n) = IF 1 > n THEN 0 ELSE n - 1 + 1
  BY <1>1, FS_Interval, ZenonT(40)
<1> QED BY <1>2, SMTT(30)

\* The people around a buffer are finitely many.
LEMMA HoldersFinite ==
  ASSUME NEW id \in Ids
  PROVE  /\ IsFiniteSet(Writers(id)) /\ IsFiniteSet(Readers(id))
         /\ Cardinality(Writers(id)) \in Nat
         /\ Cardinality(Readers(id)) \in Nat
<1>1. Writers(id) \subseteq Producers /\ Readers(id) \subseteq Clients
  BY DEF Writers, Readers
<1>2. IsFiniteSet(Writers(id)) /\ IsFiniteSet(Readers(id))
  BY <1>1, BrokerConstants, FS_Subset
<1> QED BY <1>2, FS_CardinalityType

\* A buffer whose count covers nobody is in nobody's hands.
LEMMA NobodyHolds ==
  ASSUME NEW id \in Ids, Covered(id), id \in Tracked, smem[id].cnt = 0
  PROVE  Writers(id) = {} /\ Readers(id) = {}
<1>1. Cardinality(Writers(id)) + Cardinality(Readers(id)) <= 0
  BY DEF Covered
<1>2. Cardinality(Writers(id)) = 0 /\ Cardinality(Readers(id)) = 0
  BY <1>1, HoldersFinite
<1> QED BY <1>2, HoldersFinite, FS_EmptySet

\* Fewer holders, and a count that is not smaller, keep a buffer covered.
LEMMA FewerHolders ==
  ASSUME NEW id \in Ids, Covered(id), PoolTypeOK, PoolTypeOK',
         Writers(id)' \subseteq Writers(id), Readers(id)' \subseteq Readers(id),
         id \in Tracked' => id \in Tracked /\ smem[id].cnt <= smem'[id].cnt
  PROVE  Covered(id)'
<1>1. /\ IsFiniteSet(Writers(id)') /\ IsFiniteSet(Readers(id)')
      /\ Cardinality(Writers(id)') \in Nat /\ Cardinality(Readers(id)') \in Nat
      /\ Cardinality(Writers(id)') <= Cardinality(Writers(id))
      /\ Cardinality(Readers(id)') <= Cardinality(Readers(id))
  BY HoldersFinite, FS_Subset, FS_CardinalityType
<1>2. smem[id].cnt \in Nat /\ smem'[id].cnt \in Nat
  BY PoolConstants DEF PoolTypeOK, Smem
<1>3. ASSUME Writers(id)' # {}
      PROVE  Readers(id)' = {} /\ Cardinality(Writers(id)') = 1
  <2>1. Readers(id) = {} /\ Cardinality(Writers(id)) = 1
    BY <1>3 DEF Covered
  <2>2. Cardinality(Writers(id)') # 0
    BY <1>1, <1>3, FS_EmptySet, Zenon
  <2>3. Readers(id)' = {}
    BY <2>1, Zenon
  <2>4. Cardinality(Writers(id)') = 1
    BY <1>1, <2>1, <2>2, SMTT(30)
  <2> QED BY <2>3, <2>4, Zenon
<1>4. ASSUME id \in Tracked'
      PROVE  Cardinality(Writers(id)')
             + Cardinality(Readers(id)') <= smem'[id].cnt
  BY <1>1, <1>2, <1>4, HoldersFinite, SMTT(30) DEF Covered
<1> QED BY <1>3, <1>4 DEF Covered

\* What a change of the use count does to the descriptors.
LEMMA AddCntEffect ==
  ASSUME PoolTypeOK, NEW id \in Ids, NEW d \in Int, AddCnt(id, d)
  PROVE  /\ \A j \in Ids \ {id} : smem'[j] = smem[j]
         /\ id \in Tracked' =>
              smem'[id].cnt = IF smem[id].cnt + d <= 0 THEN 0
                                                       ELSE smem[id].cnt + d
<1>1. smem \in [Ids -> Smem]
  BY DEF PoolTypeOK
<1>2. CASE Unused(smem[id].cnt + d)
  <2>1. \/ smem' = [smem EXCEPT ![id] = NoSmem]
        \/ smem' = [smem EXCEPT ![id] = Released(smem[id])]
    BY <1>2 DEF AddCnt, Recycle
  <2> QED BY <1>1, <1>2, <2>1 DEF NoSmem, Released, Tracked, Unused
<1>3. CASE ~Unused(smem[id].cnt + d)
  <2>1. smem' = [smem EXCEPT ![id].cnt = smem[id].cnt + d]
    BY <1>1, <1>3 DEF AddCnt
  <2> QED BY <1>1, <1>3, <2>1 DEF Unused, Smem
<1> QED BY <1>2, <1>3

\* A buffer that is held and tracked is in smempubsub_memorys.
LEMMA HeldIsUsed ==
  ASSUME CountsMatchState, PoolTypeOK, NEW id \in Ids, Covered(id), Held(id),
         id \in Tracked
  PROVE  id \in Used
<1>1. smem[id].cnt # 0
  BY NobodyHolds DEF Held
<1> QED BY <1>1, PoolConstants DEF CountsMatchState, PoolTypeOK, Smem

\* SMEMGET gives out a buffer that nobody has.
LEMMA GetKeepsCover ==
  ASSUME BrokerInv, PoolTypeOK', NEW p \in Producers, ProducerGet(p)
  PROVE  \A j \in Ids : Covered(j)'
<1>1. PICK r \in Requests, id \in Ids :
        /\ smem[id].state = "none" => ~Held(id)
        /\ smemgetCommand(r, id)
        /\ writing' = writing \cup {<<p, id>>}
  BY DEF ProducerGet
<1>2. reading' = reading
  BY DEF ProducerGet
<1>3. ~Held(id)
  <2>1. CASE GetAvailable(SMEMALIGN(r), id)
    <3>1. smem[id].state = "available"
      BY <2>1 DEF GetAvailable, available_list
    <3>2. id \in Tracked /\ smem[id].cnt = 0
      BY <3>1, PoolConstants, SMTT(30) DEF BrokerInv, CountsMatchState, Tracked, Used,
                                 PoolTypeOK, Smem
    <3> QED BY <3>2, NobodyHolds DEF BrokerInv, Held
  <2>2. CASE GetNew(SMEMALIGN(r), id)
    BY <1>1, <2>2, SMTT(30) DEF GetNew, Tracked
  <2> QED BY <1>1, <2>1, <2>2 DEF smemgetCommand
<1>4. smem' = [smem EXCEPT ![id] = InUse(SMEMALIGN(r))]
  BY <1>1 DEF smemgetCommand, GetAvailable, GetNew
<1>5. smem \in [Ids -> Smem]
  BY DEF BrokerInv, PoolTypeOK
<1>6. ASSUME NEW j \in Ids, j # id PROVE Covered(j)'
  <2>1. Writers(j)' = Writers(j) /\ Readers(j)' = Readers(j)
    BY <1>1, <1>2, <1>6 DEF Writers, Readers
  <2>2. smem'[j] = smem[j]
    BY <1>4, <1>5, <1>6, SMTT(30)
  <2> QED BY <2>1, <2>2 DEF BrokerInv, Covered, Tracked
<1>7. Covered(id)'
  <2>1. Writers(id)' = {p} /\ Readers(id)' = {}
    BY <1>1, <1>2, <1>3, SMTT(30) DEF Writers, Readers, Held
  <2>2. smem'[id].cnt = 1
    BY <1>4, <1>5 DEF InUse
  <2>3. Cardinality({p}) = 1 /\ Cardinality({}) = 0
    BY FS_Singleton, FS_EmptySet, Zenon
  <2> QED BY <2>1, <2>2, <2>3, SMTT(30) DEF Covered
<1> QED BY <1>6, <1>7

\* SMEMPUBLISH counts one use for each client of the list.
LEMMA PublishKeepsCover ==
  ASSUME BrokerInv, PoolTypeOK', NEW p \in Producers, NEW ch \in Channels,
         NEW id \in Ids, ProducerPublish(p, ch, id)
  PROVE  \A j \in Ids : Covered(j)'
<1> DEFINE to == ToSet(lists[ch])
           len == Len(lists[ch])
<1>1. /\ <<p, id>> \in writing
      /\ writing' = writing \ {<<p, id>>}
      /\ reading' = reading \cup (to \X {id})
  BY DEF ProducerPublish, SendTo
<1>2. lists[ch] \in Seq(Clients)
  BY DEF BrokerInv, DeviceInv, PubSubTypeOK
<1>3. len \in Nat /\ to \subseteq Clients
  <2>1. len \in Nat /\ DOMAIN lists[ch] = 1..len
    BY <1>2
  <2>2. \A i \in DOMAIN lists[ch] : lists[ch][i] \in Clients
    BY <1>2
  <2> QED BY <2>1, <2>2, Zenon DEF ToSet
<1>4. IsFiniteSet(to) /\ Cardinality(to) \in Nat /\ Cardinality(to) <= len
  <2>1. IsFiniteSet(1..len) /\ Cardinality(1..len) = len
    BY <1>3, IntervalSize, Zenon
  <2> DEFINE f == [i \in 1..len |-> lists[ch][i]]
  <2>2. to = {lists[ch][i] : i \in 1..len}
    BY <1>2 DEF ToSet
  <2>3. f \in [1..len -> to] /\ \A x \in to : \E i \in 1..len : f[i] = x
    BY <2>2
  <2> HIDE DEF f
  <2>4. f \in Surjection(1..len, to)
    BY <2>3 DEF Surjection
  <2> QED BY <2>1, <2>4, FS_Surjection, FS_CardinalityType, SMTT(30), SMTT(40)
<1> HIDE DEF to, len
<1>5. p \in Writers(id) /\ Covered(id)
  BY <1>1 DEF Writers, BrokerInv
<1>6. Writers(id) = {p} /\ Readers(id) = {}
  <2>1. Cardinality(Writers(id)) = 1 /\ Readers(id) = {}
    BY <1>5 DEF Covered
  <2> QED BY <1>5, <2>1, HoldersFinite, FS_Singleton, SMTT(30), SMTT(40)
<1>7. Writers(id)' = {} /\ Readers(id)' = to
  BY <1>1, <1>3, <1>6 DEF Writers, Readers
<1>8. \A j \in Ids \ {id} : Writers(j)' = Writers(j) /\ Readers(j)' = Readers(j)
  BY <1>1 DEF Writers, Readers
<1>9. smem[id].cnt \in Nat
  BY PoolConstants DEF BrokerInv, PoolTypeOK, Smem
<1>10. CASE id \in Used
  <2>1. AddCnt(id, len - 1) /\ len - 1 \in Int
    BY <1>3, <1>10 DEF ProducerPublish, SendTo, smempublishCommand, len
  <2>2. smem[id].cnt >= 1
    BY <1>9, <1>10 DEF BrokerInv, CountsMatchState
  <2>3. \A j \in Ids \ {id} : smem'[j] = smem[j]
    BY <2>1, AddCntEffect DEF BrokerInv
  <2>4. id \in Tracked' => smem'[id].cnt >= len
    BY <1>3, <1>9, <2>1, <2>2, AddCntEffect, SMTT(30), SMTT(40) DEF BrokerInv
  <2>5. Covered(id)'
    <3>1. id \in Tracked' => smem'[id].cnt \in Nat
      BY PoolConstants DEF PoolTypeOK, Smem
    <3> QED BY <1>3, <1>4, <1>7, <2>4, <3>1, FS_EmptySet, SMTT(30), SMTT(40) DEF Covered
  <2>6. ASSUME NEW j \in Ids, j # id PROVE Covered(j)'
    BY <1>8, <2>3, <2>6, Zenon DEF BrokerInv, Covered, Tracked
  <2> QED BY <2>5, <2>6
<1>11. CASE id \notin Used
  <2>1. smem' = smem
    BY <1>11 DEF ProducerPublish, SendTo, pvars
  <2>2. id \notin Tracked
    BY <1>5, <1>11, HeldIsUsed, SMTT(30), SMTT(40) DEF BrokerInv, Held
  <2>3. Covered(id)'
    BY <1>7, <2>1, <2>2, SMTT(30), SMTT(40) DEF Covered, Tracked
  <2>4. ASSUME NEW j \in Ids, j # id PROVE Covered(j)'
    BY <1>8, <2>1, <2>4 DEF BrokerInv, Covered, Tracked
  <2> QED BY <2>3, <2>4
<1> QED BY <1>10, <1>11

\* SMEMFREE of a reader takes back the use that was counted for it.
LEMMA FreeKeepsCover ==
  ASSUME BrokerInv, PoolTypeOK', NEW c \in Clients, NEW id \in Ids,
         ConsumerFree(c, id)
  PROVE  \A j \in Ids : Covered(j)'
<1>1. /\ <<c, id>> \in reading
      /\ reading' = reading \ {<<c, id>>} /\ writing' = writing
  BY DEF ConsumerFree
<1>2. \A j \in Ids \ {id} : Writers(j)' = Writers(j) /\ Readers(j)' = Readers(j)
  BY <1>1 DEF Writers, Readers
<1>3. c \in Readers(id) /\ Covered(id)
  BY <1>1 DEF Readers, BrokerInv
<1>4. Writers(id) = {} /\ Writers(id)' = {} /\ Readers(id)' = Readers(id) \ {c}
  BY <1>1, <1>3 DEF Writers, Readers, Covered
<1>5. /\ Cardinality(Readers(id)') = Cardinality(Readers(id)) - 1
      /\ Cardinality(Readers(id)') \in Nat
      /\ Cardinality({}) = 0
  BY <1>3, <1>4, HoldersFinite, FS_RemoveElement, FS_CardinalityType, FS_EmptySet,
     SMTT(30), SMTT(40)
<1>6. smem[id].cnt \in Nat /\ smem'[id].cnt \in Nat
  BY PoolConstants DEF BrokerInv, PoolTypeOK, Smem
<1>7. CASE id \in Used
  <2>1. AddCnt(id, -1)
    BY <1>7 DEF ConsumerFree, ServerFree, smemfreeCommand
  <2>2. \A j \in Ids \ {id} : smem'[j] = smem[j]
    BY <2>1, AddCntEffect DEF BrokerInv
  <2>3. Cardinality(Readers(id)) <= smem[id].cnt
    <3>1. id \in Tracked
      BY <1>7 DEF Tracked, Used
    <3>2. Cardinality(Writers(id)) + Cardinality(Readers(id)) <= smem[id].cnt
      BY <1>3, <3>1, Zenon DEF Covered
    <3>3. Cardinality(Readers(id)) \in Nat
      BY HoldersFinite, Zenon
    <3> QED BY <1>4, <1>5, <3>2, <3>3, SMTT(30), SMTT(40)
  <2>4. id \in Tracked' => smem'[id].cnt = IF smem[id].cnt - 1 <= 0 THEN 0
                                           ELSE smem[id].cnt - 1
    <3>1. PoolTypeOK /\ -1 \in Int
      BY DEF BrokerInv
    <3>2. id \in Tracked' =>
             smem'[id].cnt = IF smem[id].cnt + (-1) <= 0 THEN 0
                                                      ELSE smem[id].cnt + (-1)
      BY <2>1, <3>1, AddCntEffect, Zenon
    <3> QED BY <1>6, <3>2, SMTT(30), SMTT(40)
  <2>5. Covered(id)'
    BY <1>4, <1>5, <1>6, <2>3, <2>4, HoldersFinite, SMTT(30), SMTT(40) DEF Covered
  <2>6. ASSUME NEW j \in Ids, j # id PROVE Covered(j)'
    BY <1>2, <2>2, <2>6, SMTT(30), SMTT(40) DEF BrokerInv, Covered, Tracked
  <2> QED BY <2>5, <2>6
<1>8. CASE id \notin Used
  <2>1. smem' = smem
    BY <1>8 DEF ConsumerFree, ServerFree, pvars
  <2>2. id \notin Tracked
    BY <1>3, <1>8, HeldIsUsed DEF BrokerInv, Held
  <2>3. Covered(id)'
    BY <1>4, <2>1, <2>2, SMTT(30), SMTT(40) DEF Covered, Tracked
  <2>4. ASSUME NEW j \in Ids, j # id PROVE Covered(j)'
    BY <1>2, <2>1, <2>4, SMTT(30), SMTT(40) DEF BrokerInv, Covered, Tracked
  <2> QED BY <2>3, <2>4
<1> QED BY <1>7, <1>8

\* What only loses holders, or descriptors.
LEMMA LossKeepsCover ==
  ASSUME BrokerInv, PoolTypeOK',
         writing' \subseteq writing, reading' \subseteq reading,
         \/ UNCHANGED pvars
         \/ smemFreeShareMemory
         \/ Tick
  PROVE  \A j \in Ids : Covered(j)'
<1> SUFFICES ASSUME NEW j \in Ids PROVE Covered(j)'
  OBVIOUS
<1>1. Writers(j)' \subseteq Writers(j) /\ Readers(j)' \subseteq Readers(j)
  BY DEF Writers, Readers
<1>2. smem \in [Ids -> Smem] /\ smem[j].cnt \in Nat
  BY PoolConstants DEF BrokerInv, PoolTypeOK, Smem
<1>3. j \in Tracked' => j \in Tracked /\ smem[j].cnt <= smem'[j].cnt
  <2>1. CASE UNCHANGED pvars
    BY <1>2, <2>1 DEF pvars, Tracked
  <2>2. CASE smemFreeShareMemory
    BY <1>2, <2>2 DEF smemFreeShareMemory, AfterFree, NoSmem, Tracked, Expired,
       Smem
  <2>3. CASE Tick
    BY <1>2, <2>3 DEF Tick, Tracked, Smem
  <2> QED BY <2>1, <2>2, <2>3, SMTT(30), SMTT(40)
<1> QED BY <1>1, <1>3, FewerHolders DEF BrokerInv

\* A list holds each client at most once.
LEMMA ListLength ==
  ASSUME DeviceInv, NEW ch \in Channels
  PROVE  Len(lists[ch]) \in 0..MaxReceivers
<1> DEFINE len == Len(lists[ch])
           f == [i \in 1..len |-> lists[ch][i]]
<1>1. lists[ch] \in Seq(Clients) /\ IsInjective(lists[ch])
  BY DEF DeviceInv, PubSubTypeOK, TablesAgree
<1>2. len \in Nat
  BY <1>1
<1>3. f \in Injection(1..len, Clients)
  BY <1>1 DEF Injection, IsInjective
<1>4. Cardinality(1..len) = len /\ IsFiniteSet(1..len)
  BY <1>2, IntervalSize, Zenon
<1> HIDE DEF f, len
<1>5. len <= Cardinality(Clients) /\ Cardinality(Clients) \in Nat
  BY <1>3, <1>4, BrokerConstants, FS_Injection, FS_CardinalityType, SMTT(30), SMTT(40)
<1> QED BY <1>2, <1>5, BrokerConstants, PoolConstants, SMTT(30), SMTT(40) DEF len

\* A step of the broker is a step, or none, of the pool.
LEMMA PoolPart ==
  ASSUME BrokerInv, [BrokerNext]_vars
  PROVE  [PoolNext]_pvars
<1>1. ASSUME NEW p \in Producers, ProducerGet(p) PROVE PoolNext
  BY <1>1, ZenonT(40) DEF ProducerGet, PoolNext
<1>2. ASSUME NEW p \in Producers, NEW ch \in Channels, NEW id \in Ids,
             ProducerPublish(p, ch, id)
      PROVE  PoolNext \/ UNCHANGED pvars
  <2>1. Len(lists[ch]) \in 0..MaxReceivers
    BY ListLength DEF BrokerInv
  <2> QED BY <1>2, <2>1 DEF ProducerPublish, SendTo, PoolNext
<1>3. ASSUME NEW c \in Clients, NEW id \in Ids, ConsumerFree(c, id)
      PROVE  PoolNext \/ UNCHANGED pvars
  BY <1>3 DEF ConsumerFree, ServerFree, PoolNext
<1>4. CASE Trouble
  BY <1>4 DEF Trouble, ProducerVanish, ConsumerDisconnect, Cron, PoolNext
<1>5. CASE Subscriptions
  BY <1>5 DEF Subscriptions
<1>6. CASE UNCHANGED vars
  BY <1>6 DEF vars
<1> QED BY <1>1, <1>2, <1>3, <1>4, <1>5, <1>6, SMTT(30), SMTT(40) DEF BrokerNext, Work

\* A step of the broker is a step, or none, of the subscriptions.
LEMMA DevicePart ==
  ASSUME [BrokerNext]_vars
  PROVE  [DeviceNext]_svars
<1>1. CASE ~aborted /\ Subscriptions
  BY <1>1, Zenon DEF Subscriptions, DeviceNext
<1>2. ASSUME ~aborted, NEW c \in Clients, ConsumerDisconnect(c) PROVE DeviceNext
  BY <1>2 DEF ConsumerDisconnect, DeviceNext
<1>3. ASSUME NEW p \in Producers, ProducerGet(p) \/ ProducerVanish(p)
      PROVE  UNCHANGED svars
  BY <1>3 DEF ProducerGet, ProducerVanish
<1>4. ASSUME NEW p \in Producers, NEW ch \in Channels, NEW id \in Ids,
             ProducerPublish(p, ch, id)
      PROVE  UNCHANGED svars
  BY <1>4 DEF ProducerPublish
<1>5. ASSUME NEW c \in Clients, NEW id \in Ids, ConsumerFree(c, id)
      PROVE  UNCHANGED svars
  BY <1>5 DEF ConsumerFree
<1>6. CASE Cron \/ UNCHANGED vars
  BY <1>6 DEF Cron, vars
<1> QED BY <1>1, <1>2, <1>3, <1>4, <1>5, <1>6, SMTT(30), SMTT(40)
        DEF BrokerNext, Work, Trouble

\* Every step of the broker keeps the invariant.
LEMMA BrokerStep ==
  ASSUME BrokerInv, [BrokerNext]_vars
  PROVE  BrokerInv'
<1>1. PoolTypeOK' /\ CountsMatchState'
  BY PoolPart, TypeStep, CountsStep DEF BrokerInv, PoolRmNext
<1>2. DeviceInv'
  BY DevicePart, DeviceStep DEF BrokerInv
<1>3. ASSUME NEW p \in Producers, NEW ch \in Channels, NEW id \in Ids,
             ProducerPublish(p, ch, id)
      PROVE  ToSet(lists[ch]) \subseteq Clients
  <2>1. lists[ch] \in Seq(Clients)
    BY DEF BrokerInv, DeviceInv, PubSubTypeOK
  <2> QED BY <2>1 DEF ToSet
<1>4. BrokerTypeOK'
  <2> USE DEF BrokerInv, BrokerTypeOK
  <2>1. ASSUME NEW p \in Producers, ProducerGet(p) PROVE BrokerTypeOK'
    BY <2>1 DEF ProducerGet
  <2>2. ASSUME NEW p \in Producers, NEW ch \in Channels, NEW id \in Ids,
               ProducerPublish(p, ch, id)
        PROVE  BrokerTypeOK'
    BY <1>3, <2>2 DEF ProducerPublish, SendTo
  <2>3. ASSUME NEW c \in Clients, NEW id \in Ids, ConsumerFree(c, id)
        PROVE  BrokerTypeOK'
    BY <2>3 DEF ConsumerFree
  <2>4. CASE Trouble
    BY <2>4 DEF Trouble, ProducerVanish, ConsumerDisconnect, Cron, bvars
  <2>5. CASE Subscriptions \/ UNCHANGED vars
    BY <2>5 DEF Subscriptions, vars, bvars
  <2> QED BY <2>1, <2>2, <2>3, <2>4, <2>5, SMTT(30), SMTT(40) DEF BrokerNext, Work
<1>5. \A j \in Ids : Covered(j)'
  <2>1. ASSUME NEW p \in Producers, ProducerVanish(p)
        PROVE  \A j \in Ids : Covered(j)'
    BY <1>1, <2>1, LossKeepsCover, SMTT(30), SMTT(40) DEF ProducerVanish
  <2>2. ASSUME NEW c \in Clients, ConsumerDisconnect(c)
        PROVE  \A j \in Ids : Covered(j)'
    BY <1>1, <2>2, LossKeepsCover, SMTT(30), SMTT(40) DEF ConsumerDisconnect
  <2>3. CASE Cron \/ Subscriptions \/ UNCHANGED vars
    BY <1>1, <2>3, LossKeepsCover DEF Cron, Subscriptions, vars, bvars
  <2> QED BY <1>1, <2>1, <2>2, <2>3, GetKeepsCover, PublishKeepsCover,
             FreeKeepsCover, SMTT(30), SMTT(40) DEF BrokerNext, Work, Trouble
<1> QED BY <1>1, <1>2, <1>4, <1>5, SMTT(30), SMTT(40) DEF BrokerInv

\* The invariant holds throughout.
LEMMA BrokerInvariant == BrokerSpec => []BrokerInv
<1>1. BrokerInit => BrokerInv
  <2> SUFFICES ASSUME BrokerInit PROVE BrokerInv
    OBVIOUS
  <2>1. PoolTypeOK /\ CountsMatchState
    BY NoSmemType, PoolConstants
       DEF BrokerInit, PoolInit, PoolTypeOK, CountsMatchState, Used, NoSmem
  <2>2. DeviceInv
    BY DeviceInit DEF BrokerInit
  <2>3. BrokerTypeOK
    BY DEF BrokerInit, BrokerTypeOK
  <2>4. \A id \in Ids : Covered(id)
    BY SMTT(30), SMTT(40)
       DEF BrokerInit, PoolInit, Covered, Writers, Readers, Tracked, NoSmem
  <2> QED BY <2>1, <2>2, <2>3, <2>4, SMTT(30), SMTT(40) DEF BrokerInv
<1> QED BY <1>1, BrokerStep, PTL DEF BrokerSpec
-----------------------------------------------------------------------------
\* Nobody reads or writes a buffer that a producer is writing.
THEOREM WritersAlone == BrokerSpec => []WriterAlone
<1>1. BrokerInv => WriterAlone
  BY SMTT(30), SMTT(40) DEF BrokerInv, Covered, WriterAlone
<1> QED BY <1>1, BrokerInvariant, PTL

\* The use count of a buffer covers all who have it.
THEOREM CountsCoverHolders == BrokerSpec => []CountCoversHolders
<1>1. BrokerInv => CountCoversHolders
  BY DEF BrokerInv, Covered, CountCoversHolders, Tracked
<1> QED BY <1>1, BrokerInvariant, PTL
-----------------------------------------------------------------------------
\* The server's part of the composition behaves as the pool alone: whatever is
\* proved of PoolSpec, the account, the limit and the table, holds here too.
THEOREM BrokerIsPool == BrokerSpec => PoolSpec
<1>1. BrokerInit => PoolInit
  BY DEF BrokerInit
<1>2. BrokerInv /\ [BrokerNext]_vars => [PoolNext]_pvars
  BY PoolPart
<1> QED BY <1>1, <1>2, BrokerInvariant, PTL DEF BrokerSpec, PoolSpec

\* And it behaves as the subscriptions alone.
THEOREM BrokerIsDevices == BrokerSpec => DeviceSpec
<1>1. BrokerInit => PubSubInit
  BY DEF BrokerInit
<1>2. [BrokerNext]_vars => [DeviceNext]_svars
  BY DevicePart, SMTT(30), SMTT(40)
<1> QED BY <1>1, <1>2, PTL DEF BrokerSpec, DeviceSpec
-----------------------------------------------------------------------------
\* The use count of buffer id is the number of those who have it.
Exactly(id) ==
  id \in Tracked =>
    smem[id].cnt = Cardinality(Writers(id)) + Cardinality(Readers(id))

\* A buffer that a step does not touch stays exactly counted.
LEMMA UntouchedExact ==
  ASSUME NEW j \in Ids, Exactly(j), smem'[j] = smem[j],
         Writers(j)' = Writers(j), Readers(j)' = Readers(j)
  PROVE  Exactly(j)'
BY DEF Exactly, Tracked

\* SMEMGET: the new owner is the only one.
LEMMA GetExact ==
  ASSUME BrokerInv, NEW p \in Producers, ProducerGet(p), PoolTypeOK',
         \A j \in Ids : Exactly(j)
  PROVE  \A j \in Ids : Exactly(j)'
<1>1. PICK r \in Requests, id \in Ids :
        /\ smem[id].state = "none" => ~Held(id)
        /\ smemgetCommand(r, id)
        /\ writing' = writing \cup {<<p, id>>}
  BY DEF ProducerGet
<1>2. reading' = reading
  BY ZenonT(40) DEF ProducerGet
<1>3. smem' = [smem EXCEPT ![id] = InUse(SMEMALIGN(r))] /\ smem \in [Ids -> Smem]
  BY <1>1, SMTT(40), SMTT(50)
     DEF smemgetCommand, GetAvailable, GetNew, BrokerInv, PoolTypeOK
<1>4. ASSUME NEW j \in Ids, j # id PROVE Exactly(j)'
  <2>1. Writers(j)' = Writers(j) /\ Readers(j)' = Readers(j) /\ smem'[j] = smem[j]
    BY <1>1, <1>2, <1>3, <1>4, SMTT(30), SMTT(40) DEF Writers, Readers
  <2> QED BY <2>1, UntouchedExact
<1>5. Exactly(id)'
  <2>1. Covered(id)' /\ p \in Writers(id)'
    BY <1>1, GetKeepsCover, SMTT(30), SMTT(40) DEF Writers
  <2>2. Readers(id)' = {} /\ Cardinality(Writers(id)') = 1
    BY <2>1 DEF Covered
  <2>3. smem'[id].cnt = 1
    BY <1>3 DEF InUse
  <2> QED BY <2>2, <2>3, FS_EmptySet, SMTT(30), SMTT(40) DEF Exactly
<1> QED BY <1>4, <1>5, SMTT(30), SMTT(40)

\* SMEMPUBLISH: the publisher's use ends, and the length of the list is the
\* number of clients that are sent the id, since no list repeats a client.
LEMMA PublishExact ==
  ASSUME BrokerInv, NEW p \in Producers, NEW ch \in Channels, NEW id \in Ids,
         ProducerPublish(p, ch, id), \A j \in Ids : Exactly(j)
  PROVE  \A j \in Ids : Exactly(j)'
<1> DEFINE to == ToSet(lists[ch])
           len == Len(lists[ch])
<1>1. /\ <<p, id>> \in writing
      /\ writing' = writing \ {<<p, id>>}
      /\ reading' = reading \cup (to \X {id})
  BY DEF ProducerPublish, SendTo
<1>2. lists[ch] \in Seq(Clients) /\ IsInjective(lists[ch])
  BY DEF BrokerInv, DeviceInv, PubSubTypeOK, TablesAgree
<1>3. len \in Nat /\ to \subseteq Clients
  <2>1. len \in Nat /\ DOMAIN lists[ch] = 1..len
    BY <1>2
  <2>2. \A i \in DOMAIN lists[ch] : lists[ch][i] \in Clients
    BY <1>2
  <2> QED BY <2>1, <2>2, Zenon DEF ToSet
<1>4. Cardinality(to) = len
  <2>1. IsFiniteSet(1..len) /\ Cardinality(1..len) = len
    BY <1>3, IntervalSize, Zenon
  <2>2. [i \in 1..len |-> lists[ch][i]] \in Bijection(1..len, to)
    <3> DEFINE g == [i \in 1..len |-> lists[ch][i]]
    <3>1. DOMAIN lists[ch] = 1..len /\ to = {lists[ch][i] : i \in 1..len}
      BY <1>2, SMTT(30), SMTT(40) DEF ToSet
    <3>2. \A i, j \in 1..len : g[i] = g[j] => i = j
      BY <1>2, <3>1, SMTT(30), SMTT(40) DEF IsInjective
    <3>3. g \in [1..len -> to] /\ \A b \in to : \E i \in 1..len : g[i] = b
      BY <3>1
    <3> HIDE DEF g, to, len
    <3>4. g \in Bijection(1..len, to)
      BY <3>2, <3>3 DEF Bijection, Injection, Surjection, IsInjective
    <3> QED BY <3>4, SMTT(30), SMTT(40) DEF g
  <2>3. ExistsBijection(1..len, to)
    BY <2>2, Zenon DEF ExistsBijection
  <2> QED BY <2>1, <2>3, FS_Bijection, SMTT(30), SMTT(40)
<1> HIDE DEF to, len
<1>5. p \in Writers(id) /\ Covered(id)
  BY <1>1 DEF Writers, BrokerInv
<1>6. Cardinality(Writers(id)) = 1 /\ Writers(id) = {p} /\ Readers(id) = {}
  <2>1. Cardinality(Writers(id)) = 1 /\ Readers(id) = {}
    BY <1>5, Zenon DEF Covered
  <2> QED BY <1>5, <2>1, HoldersFinite, FS_Singleton, SMTT(30), SMTT(40)
<1>7. Writers(id)' = {} /\ Readers(id)' = to
  BY <1>1, <1>3, <1>6, SMTT(30), SMTT(40) DEF Writers, Readers
<1>8. \A j \in Ids \ {id} : Writers(j)' = Writers(j) /\ Readers(j)' = Readers(j)
  BY <1>1, SMTT(40), SMTT(50) DEF Writers, Readers
<1>9. CASE id \in Used
  <2>1. AddCnt(id, len - 1) /\ len - 1 \in Int
    BY <1>3, <1>9, SMTT(40), SMTT(50) DEF ProducerPublish, SendTo, smempublishCommand, len
  <2>2. smem[id].cnt = 1
    <3>1. Exactly(id) /\ id \in Tracked
      BY <1>9 DEF Tracked, Used
    <3>2. smem[id].cnt = Cardinality(Writers(id)) + Cardinality(Readers(id))
      BY <3>1 DEF Exactly
    <3>3. Cardinality(Readers(id)) = 0
      BY <1>6, FS_EmptySet
    <3> QED BY <1>6, <3>2, <3>3, SMTT(30), SMTT(40)
  <2>3. id \in Tracked' => smem'[id].cnt = len
    <3>1. PoolTypeOK
      BY DEF BrokerInv
    <3>2. id \in Tracked' =>
             smem'[id].cnt = IF smem[id].cnt + (len - 1) <= 0 THEN 0
                                              ELSE smem[id].cnt + (len - 1)
      BY <2>1, <3>1, AddCntEffect, Zenon
    <3> QED BY <1>3, <2>2, <3>2, SMTT(30), SMTT(40)
  <2>4. Exactly(id)'
    <3>1. Cardinality(Writers(id)') = 0 /\ Cardinality(Readers(id)') = len
      BY <1>4, <1>7, FS_EmptySet, Zenon
    <3> QED BY <1>3, <2>3, <3>1, SMTT(30), SMTT(40) DEF Exactly
  <2>5. \A j \in Ids \ {id} : smem'[j] = smem[j]
    BY <2>1, AddCntEffect DEF BrokerInv
  <2> QED BY <1>8, <2>4, <2>5, UntouchedExact, SMTT(30), SMTT(40)
<1>10. CASE id \notin Used
  <2>1. smem' = smem
    BY <1>10 DEF ProducerPublish, SendTo, pvars
  <2>2. id \notin Tracked
    BY <1>5, <1>10, HeldIsUsed, SMTT(30), SMTT(40) DEF BrokerInv, Held
  <2>3. Exactly(id)'
    BY <2>1, <2>2 DEF Exactly, Tracked
  <2> QED BY <1>8, <2>1, <2>3, UntouchedExact, SMTT(30), SMTT(40)
<1> QED BY <1>9, <1>10

\* SMEMFREE: one reader less, and one use less.
LEMMA FreeExact ==
  ASSUME BrokerInv, NEW c \in Clients, NEW id \in Ids, ConsumerFree(c, id),
         \A j \in Ids : Exactly(j)
  PROVE  \A j \in Ids : Exactly(j)'
<1>1. /\ <<c, id>> \in reading
      /\ reading' = reading \ {<<c, id>>} /\ writing' = writing
  BY DEF ConsumerFree
<1>2. \A j \in Ids \ {id} : Writers(j)' = Writers(j) /\ Readers(j)' = Readers(j)
  BY <1>1 DEF Writers, Readers
<1>3. c \in Readers(id) /\ Covered(id)
  BY <1>1 DEF Readers, BrokerInv
<1>4. Writers(id) = {} /\ Writers(id)' = {} /\ Readers(id)' = Readers(id) \ {c}
  BY <1>1, <1>3, SMTT(30), SMTT(40) DEF Writers, Readers, Covered
<1>5. /\ Cardinality(Readers(id)') = Cardinality(Readers(id)) - 1
      /\ Cardinality(Readers(id)) \in Nat /\ Cardinality(Readers(id)') \in Nat
      /\ Cardinality({}) = 0
  BY <1>3, <1>4, HoldersFinite, FS_RemoveElement, FS_CardinalityType, FS_EmptySet,
     SMTT(30), SMTT(40)
<1>6. CASE id \in Used
  <2>1. AddCnt(id, -1)
    BY <1>6, SMTT(40), SMTT(50) DEF ConsumerFree, ServerFree, smemfreeCommand
  <2>2. smem[id].cnt = Cardinality(Readers(id))
    <3>1. Exactly(id) /\ id \in Tracked
      BY <1>6, SMTT(30), SMTT(40) DEF Tracked, Used
    <3>2. smem[id].cnt = Cardinality(Writers(id)) + Cardinality(Readers(id))
      BY <3>1 DEF Exactly
    <3>3. Cardinality(Writers(id)) = 0
      BY <1>4, <1>5, SMTT(30), SMTT(40)
    <3> QED BY <1>5, <3>2, <3>3, SMTT(30), SMTT(40)
  <2>3. id \in Tracked' => smem'[id].cnt = Cardinality(Readers(id)')
    <3>1. PoolTypeOK /\ -1 \in Int
      BY DEF BrokerInv
    <3>2. id \in Tracked' =>
             smem'[id].cnt = IF smem[id].cnt + (-1) <= 0 THEN 0
                                                      ELSE smem[id].cnt + (-1)
      BY <2>1, <3>1, AddCntEffect, Zenon
    <3> QED BY <1>5, <2>2, <3>2, SMTT(30), SMTT(40)
  <2>4. Exactly(id)'
    BY <1>4, <1>5, <2>3, SMTT(30), SMTT(40) DEF Exactly
  <2>5. \A j \in Ids \ {id} : smem'[j] = smem[j]
    BY <2>1, AddCntEffect DEF BrokerInv
  <2> QED BY <1>2, <2>4, <2>5, UntouchedExact, Zenon
<1>7. CASE id \notin Used
  <2>1. smem' = smem
    BY <1>7 DEF ConsumerFree, ServerFree, pvars
  <2>2. id \notin Tracked
    BY <1>3, <1>7, HeldIsUsed, SMTT(30), SMTT(40) DEF BrokerInv, Held
  <2>3. Exactly(id)'
    BY <2>1, <2>2 DEF Exactly, Tracked
  <2> QED BY <1>2, <2>1, <2>3, UntouchedExact, SMTT(30), SMTT(40)
<1> QED BY <1>6, <1>7

\* Until somebody vanishes or the cron runs, the use count of every buffer is
\* the number of those who have it.
THEOREM CountsExact == BrokerSpec => []CountExact
<1>1. BrokerInit => CountExact
  BY DEF BrokerInit, PoolInit, CountExact, Tracked, NoSmem
<1>2. ASSUME BrokerInv, BrokerInv', CountExact, [BrokerNext]_vars
      PROVE  CountExact'
  <2> SUFFICES ASSUME calm' PROVE \A j \in Ids : Exactly(j)'
    BY DEF CountExact, Exactly, Tracked
  <2>1. CASE UNCHANGED vars
    BY <1>2, <2>1 DEF vars, pvars, bvars, CountExact, Exactly, Tracked, Writers,
       Readers
  <2>2. CASE BrokerNext
    <3>1. Work /\ calm
      BY <2>2, Zenon DEF BrokerNext
    <3>2. \A j \in Ids : Exactly(j)
      BY <1>2, <3>1, SMTT(40), SMTT(50) DEF CountExact, Exactly, Tracked
    <3>3. CASE Subscriptions
      BY <3>2, <3>3 DEF Subscriptions, pvars, bvars, Exactly, Tracked, Writers,
         Readers
    <3>4. PoolTypeOK'
      BY <1>2 DEF BrokerInv
    <3> QED BY <1>2, <3>1, <3>2, <3>3, <3>4, GetExact, PublishExact, FreeExact,
               SMTT(30), SMTT(40)
    DEF Work
  <2> QED BY <1>2, <2>1, <2>2, SMTT(30), SMTT(40)
<1> QED BY <1>1, <1>2, BrokerInvariant, PTL DEF BrokerSpec
=============================================================================
