----------------------------- MODULE SmemClient -----------------------------
(***************************************************************************)
(* A consumer's context of the client library (redis/test/smem_client.c)   *)
(* over the modified hiredis (redis/deps/hiredis/async.c).                 *)
(*                                                                         *)
(* A thread of the context owns the asynchronous connection: it subscribes *)
(* and puts the ids that arrive into the queue.  The application takes ids *)
(* from the queue and gives them back over a connection of its own (rctx); *)
(* ids for which the queue has no room are given back by the thread over a *)
(* third connection (rctx2).                                               *)
(*                                                                         *)
(* The queue is the abstract one of SmemFifo, which the ring of SmemQueue  *)
(* implements.  A call of hiredis is one step.  The server sends an id     *)
(* again only after this consumer gave it back: a producer gets a buffer   *)
(* only when nobody has it (SmemBroker, WriterAlone).                      *)
(*                                                                         *)
(* Some definitions are preceded by a variant with a plausible mistake;    *)
(* the variants are not used by the specification.                         *)
(***************************************************************************)
EXTENDS Integers, SequencesExt

CONSTANTS
  Ids,        \* ids of buffers of the server's pool, all greater than 0
  NoId,
  AckId,      \* the number of channels in the answer to SMEMSUBSCRIBE (1)
  Capacity,   \* places of the queue (SMEM_MAX_QUEUE_LENGTH - 1)
  SetNames    \* bound: calls of smemSetName

ASSUME ClientConstants ==
  /\ Capacity \in Nat \ {0} /\ SetNames \in Nat
  /\ NoId \notin Ids \cup {AckId}

VARIABLES
  thread,     \* where smemAsyncThread is
  replies,    \* ac->replies: how many callbacks wait for their answer
  subscribed, \* REDIS_SUBSCRIBED, with the callback in ac->sub.channels
  commands,   \* written by the client and not read by the server
  wire,       \* written by the server and not read by the client
  listening,  \* the server has the connection in the list of the channel
  queue,      \* the queue of the context
  links,      \* which of the connections rctx and rctx2 still work
  dropping,   \* the id that the thread gives back over rctx2
  hand,       \* the ids that the application has
  setnames,   \* calls of smemSetName so far
  sent,       \* history: sent by the server, not given back
  lost        \* history: of those, the ones that nobody can give back

cvars == <<thread, replies, subscribed, commands, wire, listening, queue,
           links, dropping, hand, setnames, sent, lost>>

AllIds == Ids \cup {AckId}

\* Replies: the status of CLIENT SETNAME, an error, the answer to the
\* subscription and a published id.
Status == [type |-> "status", id |-> NoId]
Error == [type |-> "error", id |-> NoId]
Ack == [type |-> "array", id |-> AckId]
Message(id) == [type |-> "array", id |-> id]

\* smemCreateConsumer*: without rctx there is no thread; without rctx2 there
\* is no context.
ClientInit ==
  /\ \/ thread \in {"connect", "connectNamed"} /\ links = {"rctx", "rctx2"}
     \/ thread = "ended" /\ links = {}
  /\ replies = 0 /\ subscribed = FALSE
  /\ commands = << >> /\ wire = << >> /\ listening = FALSE
  /\ queue = << >> /\ dropping = NoId /\ hand = {}
  /\ setnames = 0 /\ sent = {} /\ lost = {}

ConnectionUp == thread \in {"setname", "subscribe", "loop", "drop"}
-----------------------------------------------------------------------------
\* redisAsyncCommand: SMEMSUBSCRIBE registers its callback for the channel;
\* any other command waits for its answer in ac->replies, or, once
\* subscribed, in ac->sub.invalid, where nothing is ever taken from (see
\* redisProcessCallbacks).
SubscribeNotKnown(cmd) ==
  /\ commands' = Append(commands, cmd)
  /\ replies' = replies + 1
  /\ UNCHANGED subscribed
InvalidPending(cmd) ==
  /\ commands' = Append(commands, cmd)
  /\ subscribed' = (subscribed \/ cmd = "SMEMSUBSCRIBE")
  /\ replies' = IF cmd = "SMEMSUBSCRIBE" THEN replies ELSE replies + 1
redisAsyncCommand(cmd) ==
  /\ commands' = Append(commands, cmd)
  /\ subscribed' = (subscribed \/ cmd = "SMEMSUBSCRIBE")
  /\ replies' = IF subscribed' THEN replies ELSE replies + 1

\* smemAsyncThread up to the event loop.
smemAsyncThread ==
  /\ \/ /\ thread = "connect"
        /\ thread' \in {"subscribe", "ended"}
        /\ UNCHANGED <<commands, subscribed, replies>>
     \/ /\ thread = "connectNamed"
        /\ thread' \in {"setname", "ended"}
        /\ UNCHANGED <<commands, subscribed, replies>>
     \/ /\ thread = "setname"
        /\ redisAsyncCommand("CLIENT SETNAME")
        /\ thread' = "subscribe"
     \/ /\ thread = "subscribe"
        /\ redisAsyncCommand("SMEMSUBSCRIBE")
        /\ thread' = "loop"
  /\ UNCHANGED <<wire, listening, queue, links, dropping, hand, setnames, sent,
                 lost>>

\* The connection goes: the thread's event loop has nothing left to do, and
\* the ids on the wire are lost.
Disconnected ==
  /\ thread' = "ended"
  /\ replies' = 0 /\ commands' = << >> /\ wire' = << >>
  /\ listening' = FALSE
  /\ lost' = lost \cup {id \in Ids : Contains(wire, Message(id))}
  /\ UNCHANGED <<subscribed, queue, links, dropping, hand, setnames, sent>>

\* subCallback, with an id from an array.
NoRoomIgnored(id) ==
  /\ queue' = IF Len(queue) < Capacity THEN Append(queue, id) ELSE queue
  /\ UNCHANGED <<thread, dropping>>
subCallback(id) ==
  \/ /\ Len(queue) < Capacity
     /\ queue' = Append(queue, id)
     /\ UNCHANGED <<thread, dropping>>
  \/ /\ Len(queue) >= Capacity
     /\ thread' = "drop" /\ dropping' = id
     /\ UNCHANGED queue

\* redisProcessCallbacks, for one reply.  An array that a regular callback
\* (setnameCallback) takes is only logged.
redisProcessCallbacks ==
  /\ thread = "loop" /\ wire # << >>
  /\ IF replies = 0 /\ Head(wire) = Error
     THEN Disconnected
     ELSE /\ wire' = Tail(wire)
          /\ replies' = IF replies > 0 THEN replies - 1 ELSE 0
          /\ IF replies = 0 /\ Head(wire).type = "array"
             THEN subCallback(Head(wire).id)
             ELSE UNCHANGED <<queue, thread, dropping>>
          /\ UNCHANGED <<commands, subscribed, listening, links, hand,
                         setnames, sent, lost>>

\* SMEMFREE over one of the other two connections, or over none: the caller
\* logs that there was no answer and forgets the id.
SMEMFREE(id, link) ==
  IF link \in links
  THEN sent' = sent \ {id} /\ UNCHANGED lost
  ELSE lost' = lost \cup ({id} \cap sent) /\ UNCHANGED sent

\* smemFreeShareMemory2, called by subCallback, returns.
WaitsForAnswer ==
  /\ thread = "drop" /\ "rctx2" \in links
  /\ SMEMFREE(dropping, "rctx2")
  /\ thread' = "loop" /\ dropping' = NoId
  /\ UNCHANGED <<replies, subscribed, commands, wire, listening, queue, links,
                 hand, setnames>>
smemFreeShareMemory2 ==
  /\ thread = "drop"
  /\ SMEMFREE(dropping, "rctx2")
  /\ thread' = "loop" /\ dropping' = NoId
  /\ UNCHANGED <<replies, subscribed, commands, wire, listening, queue, links,
                 hand, setnames>>
-----------------------------------------------------------------------------
\* The application.
smemGetShareMemory ==
  /\ queue # << >>
  /\ hand' = hand \cup {Head(queue)} /\ queue' = Tail(queue)
  /\ UNCHANGED <<thread, replies, subscribed, commands, wire, listening,
                 links, dropping, setnames, sent, lost>>

smemFreeShareMemory(id) ==
  /\ id \in hand
  /\ hand' = hand \ {id}
  /\ SMEMFREE(id, "rctx")
  /\ UNCHANGED <<thread, replies, subscribed, commands, wire, listening, queue,
                 links, dropping, setnames>>

\* smemSetName, from the application's thread, while c->rasync points to a
\* live connection.  The server does not know the command SETNAME.
smemSetName ==
  /\ setnames < SetNames
  /\ ConnectionUp
  /\ redisAsyncCommand("SETNAME")
  /\ setnames' = setnames + 1
  /\ UNCHANGED <<thread, wire, listening, queue, links, dropping, hand, sent,
                 lost>>

\* smemFree: the connections are closed and the memory of the context goes;
\* nothing is given back.
smemFree ==
  /\ thread # "freed"
  /\ thread' = "freed"
  /\ replies' = 0 /\ commands' = << >> /\ wire' = << >> /\ listening' = FALSE
  /\ queue' = << >> /\ links' = {} /\ dropping' = NoId /\ hand' = {}
  /\ lost' = sent
  /\ UNCHANGED <<subscribed, setnames, sent>>
-----------------------------------------------------------------------------
\* The server's end of the asynchronous connection.
AnswersTo(cmd) ==
  CASE cmd = "CLIENT SETNAME" -> {Status, Error}
    [] cmd = "SMEMSUBSCRIBE" -> {Ack}
    [] cmd = "SETNAME" -> {Error}

ServerCommand ==
  /\ commands # << >>
  /\ commands' = Tail(commands)
  /\ \E r \in AnswersTo(Head(commands)) : wire' = Append(wire, r)
  /\ listening' = (listening \/ Head(commands) = "SMEMSUBSCRIBE")
  /\ UNCHANGED <<thread, replies, subscribed, queue, links, dropping, hand,
                 setnames, sent, lost>>

ServerPublish(id) ==
  /\ listening /\ id \notin sent
  /\ wire' = Append(wire, Message(id))
  /\ sent' = sent \cup {id}
  /\ UNCHANGED <<thread, replies, subscribed, commands, listening, queue,
                 links, dropping, hand, setnames, lost>>

\* A connection breaks.  The event loop sees the end of its own; a command
\* over one of the others then has no answer.
ConnectionLost == thread = "loop" /\ Disconnected

LinkLost(link) ==
  /\ link \in links
  /\ links' = links \ {link}
  /\ UNCHANGED <<thread, replies, subscribed, commands, wire, listening, queue,
                 dropping, hand, setnames, sent, lost>>

ClientNext ==
  \/ smemAsyncThread \/ redisProcessCallbacks \/ smemFreeShareMemory2
  \/ smemGetShareMemory \/ (\E id \in AllIds : smemFreeShareMemory(id))
  \/ smemSetName \/ smemFree
  \/ ServerCommand \/ (\E id \in Ids : ServerPublish(id))
  \/ ConnectionLost \/ (\E link \in links : LinkLost(link))

ClientSpec == ClientInit /\ [][ClientNext]_cvars

\* The event loop runs, the calls of the library return, and the application
\* asks for ids and gives each of them back, as test/consumer_smem.c does.
ClientFairSpec ==
  /\ ClientSpec
  /\ WF_cvars(redisProcessCallbacks) /\ WF_cvars(smemFreeShareMemory2)
  /\ WF_cvars(smemGetShareMemory)
  /\ \A id \in AllIds : WF_cvars(smemFreeShareMemory(id))
-----------------------------------------------------------------------------
\* The type invariant of the context.
ClientTypeOK ==
  /\ thread \in {"connect", "connectNamed", "setname", "subscribe", "loop",
                 "drop", "ended", "freed"}
  /\ replies \in Nat /\ subscribed \in BOOLEAN
  /\ commands \in Seq({"CLIENT SETNAME", "SMEMSUBSCRIBE", "SETNAME"})
  /\ wire \in Seq({Status, Error} \cup {Message(id) : id \in AllIds})
  /\ listening \in BOOLEAN
  /\ queue \in Seq(AllIds) /\ Len(queue) <= Capacity
  /\ links \subseteq {"rctx", "rctx2"}
  /\ dropping \in AllIds \cup {NoId}
  /\ hand \subseteq AllIds /\ setnames \in 0..SetNames
  /\ sent \subseteq Ids /\ lost \subseteq Ids

\* How often an id is somewhere in the context or on its way to it.
Places(id) ==
  Cardinality({i \in DOMAIN wire : wire[i] = Message(id)})
  + Cardinality({i \in DOMAIN queue : queue[i] = id})
  + (IF dropping = id THEN 1 ELSE 0)
  + (IF id \in hand THEN 1 ELSE 0)
  + (IF id \in lost THEN 1 ELSE 0)

\* An id that the server counts for this consumer is in exactly one place,
\* whatever the two threads, the server and the connections do: subCallback
\* and the application never give it back twice and never forget it.
HeldOnce ==
  \A id \in Ids : Places(id) = IF id \in sent THEN 1 ELSE 0

\* "Even if the context is subscribed, pending regular callbacks will get a
\* reply before pub/sub messages arrive" (deps/hiredis/async.c): a published
\* id never goes to setnameCallback, which would drop it.
PendingFirst ==
  replies > 0 /\ wire # << >> => Head(wire).type # "array"

\* The assertion of redisProcessCallbacks: a reply that is no error and that
\* no callback waits for arrives only in a subscribed context.
OnlySubscribed ==
  replies = 0 /\ wire # << >> /\ Head(wire) # Error => subscribed

\* What smemGetShareMemory returns to a consumer was published to it.
OnlyPublished == hand \subseteq sent

\* A published id is given back, by the application or by subCallback when
\* the queue is full, unless a connection of the context is gone.
GivenBack ==
  \A id \in Ids :
    id \in sent ~>
      \/ id \notin sent
      \/ /\ id \in lost
         /\ (thread \in {"ended", "freed"} \/ links # {"rctx", "rctx2"})
=============================================================================
