----------------------------- MODULE SmemBroker -----------------------------
(***************************************************************************)
(* The server's pool of buffers and its subscriptions together, with the   *)
(* producers and the consumers that use them.                              *)
(*                                                                         *)
(* A producer (smem_enc.c of the ffmpeg devices) gets a buffer, writes a   *)
(* frame and publishes it: smemGetShareMemory, smemPublish.  A consumer    *)
(* (smem_dec.c) is sent the id, reads the frame and gives the id back once *)
(* with smemFreeShareMemory; an id still under way to a subscriber, or in  *)
(* its queue, counts as being read.  Producers may vanish at any moment,   *)
(* and a connection may end with any of its ids lost.                      *)
(***************************************************************************)
EXTENDS SmemPool, SmemPubSub

CONSTANT Producers

ASSUME BrokerConstants ==
  /\ IsFiniteSet(Clients) /\ IsFiniteSet(Producers)
  /\ Cardinality(Clients) <= MaxReceivers

VARIABLES
  writing,    \* <<producer, id>>: got and not yet published
  reading,    \* <<client, id>>: sent to the client and not yet given back
  calm        \* history: nothing of Trouble happened yet

bvars == <<writing, reading>>
vars == <<pvars, svars, bvars, calm>>

Writers(id) == {p \in Producers : <<p, id>> \in writing}
Readers(id) == {c \in Clients : <<c, id>> \in reading}
Held(id) == Writers(id) # {} \/ Readers(id) # {}

BrokerInit ==
  /\ PoolInit /\ PubSubInit
  /\ writing = {} /\ reading = {} /\ calm = TRUE

\* A producer has one buffer at a time.
Idle(p) == \A id \in Ids : <<p, id>> \notin writing

\* smemGetShareMemory.  The kernel's sequence numbers are long: a new segment
\* does not get an id that somebody still has.
ProducerGet(p) ==
  /\ Idle(p)
  /\ \E r \in Requests, id \in Ids :
       /\ smem[id].state = "none" => ~Held(id)
       /\ smemgetCommand(r, id)
       /\ writing' = writing \cup {<<p, id>>}
  /\ UNCHANGED <<svars, reading>>

\* SMEMPUBLISH sends the id to every client of the list, also when the server
\* no longer has the buffer.
SendTo(ch, id) ==
  /\ IF id \in Used THEN smempublishCommand(id, Len(lists[ch]))
                    ELSE UNCHANGED pvars
  /\ reading' = reading \cup (ToSet(lists[ch]) \X {id})

ProducerPublish(p, ch, id) ==
  /\ <<p, id>> \in writing
  /\ SendTo(ch, id)
  /\ writing' = writing \ {<<p, id>>}
  /\ UNCHANGED svars

ServerFree(id) ==
  IF id \in Used THEN smemfreeCommand(id) ELSE UNCHANGED pvars

ConsumerFree(c, id) ==
  /\ <<c, id>> \in reading
  /\ ServerFree(id)
  /\ reading' = reading \ {<<c, id>>}
  /\ UNCHANGED <<svars, writing>>

\* The producer's process ends.
ProducerVanish(p) ==
  /\ ~Idle(p)
  /\ writing' = writing \ ({p} \X Ids)
  /\ UNCHANGED <<pvars, svars, reading>>

\* A subscriber's connection ends; some of its ids are lost, for the others
\* its process lives on.
ConsumerDisconnect(c) ==
  /\ freeClient(c)
  /\ \E lost \in SUBSET ({c} \X Ids) : reading' = reading \ lost
  /\ UNCHANGED <<pvars, writing>>

Subscriptions ==
  /\ \/ \E c \in Clients :
          \/ createClient(c)
          \/ \E n \in Names : DeviceSetName(c, n)
          \/ \E ch \in Channels : smemsubscribeCommand(c, {ch})
     \/ \E pub \in Channels, n \in Names : smemswitchCommand(pub, n)
  /\ UNCHANGED <<pvars, bvars>>

Cron == (smemFreeShareMemory \/ Tick) /\ UNCHANGED <<svars, bvars>>

\* The work of the devices, and what goes wrong around them.
Work ==
  \/ \E p \in Producers :
       ProducerGet(p) \/ \E ch \in Channels, id \in Ids : ProducerPublish(p, ch, id)
  \/ \E c \in Clients, id \in Ids : ConsumerFree(c, id)
  \/ Subscriptions

Trouble ==
  \/ \E p \in Producers : ProducerVanish(p)
  \/ \E c \in Clients : ConsumerDisconnect(c)
  \/ Cron

BrokerNext ==
  /\ ~aborted
  /\ \/ Work /\ UNCHANGED calm
     \/ Trouble /\ calm' = FALSE
BrokerSpec == BrokerInit /\ [][BrokerNext]_vars

-----------------------------------------------------------------------------
\* The type invariant of the references.
BrokerTypeOK ==
  /\ writing \subseteq Producers \X Ids
  /\ reading \subseteq Clients \X Ids

\* A frame is written by one producer while nobody reads the buffer: the
\* server gives out no buffer that somebody still has.
WriterAlone ==
  \A id \in Ids : Writers(id) # {} =>
    Readers(id) = {} /\ Cardinality(Writers(id)) = 1

\* The use count covers everybody who has the buffer, and a buffer of the
\* available lists is in nobody's hands: publish counts one use per client of
\* the list, and every client gives back once.
CountCoversHolders ==
  \A id \in Tracked :
    Cardinality(Writers(id)) + Cardinality(Readers(id)) <= smem[id].cnt

\* While nobody vanishes and nothing times out the count is exact: a buffer
\* goes back to the pool with its last reader, not only when the cron finds it.
CountExact ==
  calm => \A id \in Tracked :
            smem[id].cnt = Cardinality(Writers(id)) + Cardinality(Readers(id))
=============================================================================
