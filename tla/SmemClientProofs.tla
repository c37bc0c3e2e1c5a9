-------------------------- MODULE SmemClientProofs --------------------------
(***************************************************************************)
(* Proofs about SmemClient, for any set of ids and any capacity of the     *)
(* queue: answers meet the callbacks that wait for them, and an id is in   *)
(* exactly one place.                                                      *)
(***************************************************************************)
EXTENDS SmemClient, SequenceTheorems, FiniteSetTheorems, TLAPS

Commands == {"CLIENT SETNAME", "SMEMSUBSCRIBE", "SETNAME"}
Replies == {Status, Error} \cup {Message(id) : id \in AllIds}

\* The answers come in the order of the commands, so the first of them belong
\* to the callbacks of ac->replies, which were all added before the
\* subscription; and an id is being dropped only in subCallback.
AnswersInv ==
  /\ replies <= Len(wire) + Len(commands)
  /\ \A i \in 1..Len(wire) : i <= replies => wire[i].type # "array"
  /\ \A j \in 1..Len(commands) : Len(wire) + j <= replies => commands[j] # "SMEMSUBSCRIBE"
  /\ replies > Len(wire) => ~listening
  /\ ~subscribed => replies = Len(wire) + Len(commands) /\ ~listening
  /\ thread \in {"loop", "drop"} => subscribed
  /\ thread # "drop" => dropping = NoId

ContextInv == ClientTypeOK /\ AnswersInv
-----------------------------------------------------------------------------
\* The kinds of replies are different.
LEMMA ReplyKinds ==
  /\ Status.type # "array" /\ Error.type # "array"
  /\ Status \in Replies /\ Error \in Replies /\ Ack \in Replies
  /\ \A id \in AllIds : Message(id) \in Replies /\ Message(id).id = id /\ Message(id).type = "array"
  /\ \A r \in Replies : r.type = "array" => r.id \in AllIds /\ r = Message(r.id)
<1>1. Status.type # "array" /\ Error.type # "array" /\ Status \in Replies /\ Error \in Replies
  BY DEF Status, Error, Replies
<1>2. AckId \in AllIds /\ Ack = Message(AckId)
  BY DEF AllIds, Ack, Message
<1>3. \A id \in AllIds : Message(id) \in Replies /\ Message(id).id = id /\ Message(id).type = "array"
  BY DEF Message, Replies
<1>4. \A r \in Replies : r.type = "array" => r.id \in AllIds /\ r = Message(r.id)
  <2> SUFFICES ASSUME NEW r \in Replies, r.type = "array" PROVE r.id \in AllIds /\ r = Message(r.id)
    OBVIOUS
  <2>1. PICK id \in AllIds : r = Message(id)
    BY <1>1 DEF Replies
  <2> QED BY <1>3, <2>1
<1> QED BY <1>1, <1>2, <1>3, <1>4

\* A command of the client is sent last, and only regular ones before the
\* subscription wait for an answer.
LEMMA CommandKeeps ==
  ASSUME ContextInv, NEW cmd \in Commands, redisAsyncCommand(cmd),
         wire' = wire, listening' = listening
  PROVE  /\ replies' \in Nat /\ subscribed' \in BOOLEAN /\ commands' \in Seq(Commands)
         /\ subscribed => subscribed'
         /\ cmd = "SMEMSUBSCRIBE" => subscribed'
         /\ replies' <= Len(wire') + Len(commands')
         /\ \A i \in 1..Len(wire') : i <= replies' => wire'[i].type # "array"
         /\ \A j \in 1..Len(commands') :
              Len(wire') + j <= replies' => commands'[j] # "SMEMSUBSCRIBE"
         /\ replies' > Len(wire') => ~listening'
         /\ ~subscribed' => replies' = Len(wire') + Len(commands') /\ ~listening'
<1>1. /\ commands' = Append(commands, cmd)
      /\ subscribed' = (subscribed \/ cmd = "SMEMSUBSCRIBE")
      /\ replies' = IF subscribed' THEN replies ELSE replies + 1
  BY DEF redisAsyncCommand
<1>2. /\ replies \in Nat /\ subscribed \in BOOLEAN /\ commands \in Seq(Commands)
      /\ wire \in Seq(Replies)
  BY DEF ContextInv, ClientTypeOK, Commands, Replies
<1>3. /\ commands' \in Seq(Commands) /\ Len(commands') = Len(commands) + 1
      /\ \A j \in 1..Len(commands) : commands'[j] = commands[j]
      /\ commands'[Len(commands) + 1] = cmd
      /\ Len(commands) \in Nat /\ Len(wire) \in Nat
  BY <1>1, <1>2, AppendProperties, LenProperties
<1>4. subscribed' \in BOOLEAN /\ (subscribed => subscribed') /\ (cmd = "SMEMSUBSCRIBE" => subscribed')
  BY <1>1, <1>2, Zenon
<1>5. AnswersInv
  BY DEF ContextInv
<1>6. CASE subscribed'
  <2>1. replies' = replies
    BY <1>1, <1>6
  <2> QED BY <1>2, <1>3, <1>4, <1>5, <1>6, <2>1 DEF AnswersInv
<1>7. CASE ~subscribed'
  <2>1. ~subscribed /\ cmd # "SMEMSUBSCRIBE" /\ replies' = replies + 1
    BY <1>1, <1>7
  <2>2. replies = Len(wire) + Len(commands) /\ ~listening
    BY <1>5, <2>1 DEF AnswersInv
  <2>3. \A j \in 1..Len(commands') :
          Len(wire') + j <= replies' => commands'[j] # "SMEMSUBSCRIBE"
    <3> SUFFICES ASSUME NEW j \in 1..Len(commands') PROVE commands'[j] # "SMEMSUBSCRIBE"
      OBVIOUS
    <3>1. CASE j = Len(commands) + 1
      BY <1>3, <2>1, <3>1
    <3>2. CASE j \in 1..Len(commands)
      BY <1>3, <1>5, <2>2, <3>2 DEF AnswersInv
    <3> QED BY <1>3, <3>1, <3>2
  <2>4. \A i \in 1..Len(wire) : wire[i].type # "array"
    BY <1>3, <1>5, <2>2 DEF AnswersInv
  <2> QED BY <1>2, <1>3, <1>4, <2>1, <2>2, <2>3, <2>4
<1> QED BY <1>6, <1>7

\* smemAsyncThread and smemSetName send commands.
LEMMA SendKeeps ==
  ASSUME ContextInv, smemAsyncThread \/ smemSetName
  PROVE  ContextInv'
<1>1. /\ UNCHANGED <<wire, listening, queue, links, dropping, hand, sent, lost>>
      /\ setnames' \in 0..SetNames
  <2>1. setnames \in 0..SetNames /\ SetNames \in Nat
    BY ClientConstants DEF ContextInv, ClientTypeOK
  <2>2. setnames' = setnames \/ (setnames < SetNames /\ setnames' = setnames + 1)
    BY DEF smemAsyncThread, smemSetName
  <2>3. UNCHANGED <<wire, listening, queue, links, dropping, hand, sent, lost>>
    BY DEF smemAsyncThread, smemSetName
  <2> QED BY <2>1, <2>2, <2>3
<1>2. /\ thread # "drop" => thread' # "drop"
      /\ thread = "drop" => thread' = "drop"
      /\ thread' \in {"connect", "connectNamed", "setname", "subscribe", "loop",
                      "drop", "ended", "freed"}
  BY DEF smemAsyncThread, smemSetName, ContextInv, ClientTypeOK
<1>3. CASE UNCHANGED <<commands, subscribed, replies>> /\ thread' \notin {"loop", "drop"}
  BY <1>1, <1>2, <1>3 DEF ContextInv, ClientTypeOK, AnswersInv
<1>4. CASE \E cmd \in Commands :
             /\ redisAsyncCommand(cmd)
             /\ thread' = thread \/ thread' \notin {"loop", "drop"} \/ cmd = "SMEMSUBSCRIBE"
  <2>1. PICK cmd \in Commands :
             /\ redisAsyncCommand(cmd)
             /\ thread' = thread \/ thread' \notin {"loop", "drop"} \/ cmd = "SMEMSUBSCRIBE"
    BY <1>4
  <2>2. /\ replies' \in Nat /\ subscribed' \in BOOLEAN /\ commands' \in Seq(Commands)
        /\ subscribed => subscribed'
        /\ cmd = "SMEMSUBSCRIBE" => subscribed'
        /\ replies' <= Len(wire') + Len(commands')
        /\ \A i \in 1..Len(wire') : i <= replies' => wire'[i].type # "array"
        /\ \A j \in 1..Len(commands') :
             Len(wire') + j <= replies' => commands'[j] # "SMEMSUBSCRIBE"
        /\ replies' > Len(wire') => ~listening'
        /\ ~subscribed' => replies' = Len(wire') + Len(commands') /\ ~listening'
    BY <1>1, <2>1, CommandKeeps
  <2>3. ClientTypeOK'
    BY <1>1, <1>2, <2>2 DEF ContextInv, ClientTypeOK, Commands
  <2>4. (thread' \in {"loop", "drop"} => subscribed') /\ (thread' # "drop" => dropping' = NoId)
    BY <1>1, <1>2, <2>1, <2>2 DEF ContextInv, AnswersInv
  <2> QED BY <2>2, <2>3, <2>4 DEF ContextInv, AnswersInv
<1> QED BY <1>3, <1>4 DEF smemAsyncThread, smemSetName, Commands

\* The server answers the oldest command.
LEMMA ServerKeeps ==
  ASSUME ContextInv, ServerCommand
  PROVE  ContextInv'
<1>1. /\ commands # << >> /\ commands' = Tail(commands)
      /\ listening' = (listening \/ Head(commands) = "SMEMSUBSCRIBE")
      /\ UNCHANGED <<thread, replies, subscribed, queue, links, dropping, hand,
                     setnames, sent, lost>>
  BY DEF ServerCommand
<1>2. PICK r \in AnswersTo(Head(commands)) : wire' = Append(wire, r)
  BY DEF ServerCommand
<1>3. /\ replies \in Nat /\ subscribed \in BOOLEAN /\ commands \in Seq(Commands)
      /\ wire \in Seq(Replies) /\ listening \in BOOLEAN
  BY DEF ContextInv, ClientTypeOK, Commands, Replies
<1>4. /\ Head(commands) \in Commands /\ commands' \in Seq(Commands)
      /\ Len(commands') = Len(commands) - 1 /\ Len(commands) \in Nat /\ Len(commands) > 0
      /\ Head(commands) = commands[1]
      /\ \A j \in 1..Len(commands') : commands'[j] = commands[j + 1]
  BY <1>1, <1>3, HeadTailProperties, EmptySeq, LenProperties
<1>5. r \in Replies /\ (r.type = "array" => Head(commands) = "SMEMSUBSCRIBE")
  BY <1>4, ReplyKinds DEF AnswersTo, Commands
<1>6. /\ wire' \in Seq(Replies) /\ Len(wire') = Len(wire) + 1 /\ Len(wire) \in Nat
      /\ \A i \in 1..Len(wire) : wire'[i] = wire[i]
      /\ wire'[Len(wire) + 1] = r
  BY <1>2, <1>3, <1>5, AppendProperties, LenProperties
<1>7. AnswersInv
  BY DEF ContextInv
<1>8. listening' \in BOOLEAN
  BY <1>1, <1>3, Zenon
<1>9. replies > Len(wire) => Head(commands) # "SMEMSUBSCRIBE" /\ ~listening
  <2>1. 1 \in 1..Len(commands)
    BY <1>4
  <2> QED BY <1>3, <1>4, <1>6, <1>7, <2>1 DEF AnswersInv
<1>10. ClientTypeOK'
  BY <1>1, <1>4, <1>6, <1>8 DEF ContextInv, ClientTypeOK, Commands, Replies
<1>11. \A i \in 1..Len(wire') : i <= replies' => wire'[i].type # "array"
  <2> SUFFICES ASSUME NEW i \in 1..Len(wire'), i <= replies PROVE wire'[i].type # "array"
    BY <1>1
  <2>1. CASE i = Len(wire) + 1
    BY <1>3, <1>5, <1>6, <1>9, <2>1
  <2>2. CASE i \in 1..Len(wire)
    BY <1>6, <1>7, <2>2 DEF AnswersInv
  <2> QED BY <1>6, <2>1, <2>2
<1>12. \A j \in 1..Len(commands') :
         Len(wire') + j <= replies' => commands'[j] # "SMEMSUBSCRIBE"
  <2> SUFFICES ASSUME NEW j \in 1..Len(commands'), Len(wire') + j <= replies
               PROVE  commands'[j] # "SMEMSUBSCRIBE"
    BY <1>1
  <2>1. j + 1 \in 1..Len(commands) /\ Len(wire) + (j + 1) <= replies
    BY <1>3, <1>4, <1>6
  <2> QED BY <1>4, <1>7, <2>1 DEF AnswersInv
<1>13. replies' > Len(wire') => ~listening'
  BY <1>1, <1>3, <1>6, <1>9
<1>14. /\ replies' <= Len(wire') + Len(commands')
       /\ ~subscribed' => replies' = Len(wire') + Len(commands') /\ ~listening'
  <2>1. Len(wire') + Len(commands') = Len(wire) + Len(commands)
    BY <1>4, <1>6
  <2>2. ~subscribed => replies > Len(wire)
    BY <1>3, <1>4, <1>6, <1>7 DEF AnswersInv
  <2> QED BY <1>1, <1>7, <1>9, <2>1, <2>2 DEF AnswersInv
<1> QED BY <1>1, <1>7, <1>10, <1>11, <1>12, <1>13, <1>14 DEF ContextInv, AnswersInv

\* Only an end of the connection makes the server forget.
LEMMA PublishKeeps ==
  ASSUME ContextInv, NEW id \in Ids, ServerPublish(id)
  PROVE  ContextInv'
<1>1. /\ listening /\ wire' = Append(wire, Message(id)) /\ sent' = sent \cup {id}
      /\ UNCHANGED <<thread, replies, subscribed, commands, listening, queue,
                     links, dropping, hand, setnames, lost>>
  BY DEF ServerPublish
<1>2. /\ replies \in Nat /\ wire \in Seq(Replies) /\ commands \in Seq(Commands)
      /\ Message(id) \in Replies
  BY ReplyKinds DEF ContextInv, ClientTypeOK, Commands, Replies, AllIds
<1>3. /\ wire' \in Seq(Replies) /\ Len(wire') = Len(wire) + 1 /\ Len(wire) \in Nat
      /\ \A i \in 1..Len(wire) : wire'[i] = wire[i]
      /\ Len(commands) \in Nat
  BY <1>1, <1>2, AppendProperties, LenProperties
<1>4. AnswersInv /\ replies <= Len(wire) /\ subscribed
  <2>1. AnswersInv
    BY DEF ContextInv
  <2>2. ~(replies > Len(wire)) /\ subscribed
    BY <1>1, <2>1 DEF AnswersInv, ContextInv, ClientTypeOK
  <2> QED BY <1>2, <1>3, <2>1, <2>2
<1>5. ClientTypeOK'
  BY <1>1, <1>3 DEF ContextInv, ClientTypeOK, Replies
<1>6. \A i \in 1..Len(wire') : i <= replies' => wire'[i].type # "array"
  BY <1>1, <1>2, <1>3, <1>4 DEF AnswersInv
<1>7. \A j \in 1..Len(commands') :
        Len(wire') + j <= replies' => commands'[j] # "SMEMSUBSCRIBE"
  BY <1>1, <1>2, <1>3, <1>4
<1>8. replies' <= Len(wire') + Len(commands') /\ ~(replies' > Len(wire'))
  BY <1>1, <1>2, <1>3, <1>4
<1> QED BY <1>1, <1>4, <1>5, <1>6, <1>7, <1>8 DEF ContextInv, AnswersInv

\* The end of a connection.
LEMMA GoneKeeps ==
  ASSUME ContextInv, smemFree \/ (thread = "loop" /\ Disconnected)
  PROVE  ContextInv'
<1>1. /\ thread' \in {"ended", "freed"} /\ replies' = 0 /\ commands' = << >> /\ wire' = << >>
      /\ listening' = FALSE /\ UNCHANGED <<subscribed, setnames, sent>>
      /\ queue' = queue \/ queue' = << >>
      /\ links' \subseteq links /\ dropping' = NoId /\ hand' \subseteq hand
      /\ lost' \subseteq Ids
  <2>1. CASE smemFree
    BY <2>1 DEF smemFree, ContextInv, ClientTypeOK
  <2>2. CASE thread = "loop" /\ Disconnected
    BY <2>2 DEF Disconnected, ContextInv, AnswersInv, ClientTypeOK
  <2> QED BY <2>1, <2>2
<1>2. /\ commands' \in Seq(Commands) /\ wire' \in Seq(Replies)
      /\ Len(commands') = 0 /\ Len(wire') = 0
  BY <1>1
<1>3. queue' \in Seq(AllIds) /\ Len(queue') <= Capacity
  <2>1. CASE queue' = queue
    BY <2>1 DEF ContextInv, ClientTypeOK
  <2>2. CASE queue' = << >>
    BY <2>2, ClientConstants
  <2> QED BY <1>1, <2>1, <2>2
<1>4. ClientTypeOK'
  BY <1>1, <1>2, <1>3 DEF ContextInv, ClientTypeOK, Commands, Replies
<1> QED BY <1>1, <1>2, <1>4 DEF ContextInv, AnswersInv

\* The oldest answer goes to the oldest callback.
LEMMA ProcessKeeps ==
  ASSUME ContextInv, thread = "loop", wire # << >>, wire' = Tail(wire),
         replies' = (IF replies > 0 THEN replies - 1 ELSE 0),
         \/ replies = 0 /\ Head(wire).type = "array" /\ subCallback(Head(wire).id)
         \/ UNCHANGED <<queue, thread, dropping>>,
         UNCHANGED <<commands, subscribed, listening, links, hand, setnames, sent, lost>>
  PROVE  ContextInv'
<1>1. /\ replies \in Nat /\ wire \in Seq(Replies) /\ commands \in Seq(Commands)
      /\ queue \in Seq(AllIds) /\ Len(queue) <= Capacity /\ Capacity \in Nat
  BY ClientConstants DEF ContextInv, ClientTypeOK, Commands, Replies
<1>2. /\ Head(wire) \in Replies /\ wire' \in Seq(Replies)
      /\ Len(wire') = Len(wire) - 1 /\ Len(wire) \in Nat /\ Len(wire) > 0
      /\ \A i \in 1..Len(wire') : wire'[i] = wire[i + 1]
      /\ Len(commands) \in Nat
  BY <1>1, HeadTailProperties, EmptySeq, LenProperties
<1>3. AnswersInv /\ subscribed /\ dropping = NoId
  BY DEF ContextInv, AnswersInv
<1>4. /\ queue' \in Seq(AllIds) /\ Len(queue') <= Capacity
      /\ thread' \in {"loop", "drop"} /\ dropping' \in AllIds \cup {NoId}
      /\ thread' # "drop" => dropping' = NoId
  <2>1. CASE UNCHANGED <<queue, thread, dropping>>
    BY <1>1, <1>3, <2>1
  <2>2. CASE Head(wire).type = "array" /\ subCallback(Head(wire).id)
    <3>1. Head(wire).id \in AllIds
      BY <1>2, <2>2, ReplyKinds
    <3>2. CASE Len(queue) < Capacity /\ queue' = Append(queue, Head(wire).id)
               /\ UNCHANGED <<thread, dropping>>
      <4>1. /\ queue' \in Seq(AllIds) /\ Len(queue') = Len(queue) + 1 /\ Len(queue) \in Nat
        BY <1>1, <3>1, <3>2, AppendProperties, LenProperties
      <4> QED BY <1>1, <1>3, <3>2, <4>1
    <3>3. CASE thread' = "drop" /\ dropping' = Head(wire).id /\ UNCHANGED queue
      BY <1>1, <3>1, <3>3
    <3> QED BY <2>2, <3>2, <3>3 DEF subCallback
  <2> QED BY <2>1, <2>2
<1>5. replies' \in Nat /\ (replies > 0 => replies' = replies - 1) /\ (replies = 0 => replies' = 0)
  BY <1>1
<1>6. ClientTypeOK'
  BY <1>2, <1>4, <1>5 DEF ContextInv, ClientTypeOK, Replies
<1>7. \A i \in 1..Len(wire') : i <= replies' => wire'[i].type # "array"
  <2> SUFFICES ASSUME NEW i \in 1..Len(wire'), i <= replies' PROVE wire'[i].type # "array"
    OBVIOUS
  <2>1. i + 1 \in 1..Len(wire) /\ i + 1 <= replies
    BY <1>1, <1>2, <1>5
  <2> QED BY <1>2, <1>3, <2>1 DEF AnswersInv
<1>8. \A j \in 1..Len(commands') :
        Len(wire') + j <= replies' => commands'[j] # "SMEMSUBSCRIBE"
  <2> SUFFICES ASSUME NEW j \in 1..Len(commands), Len(wire') + j <= replies'
               PROVE  commands[j] # "SMEMSUBSCRIBE"
    OBVIOUS
  <2>1. Len(wire) + j <= replies
    BY <1>1, <1>2, <1>5
  <2> QED BY <1>3, <2>1 DEF AnswersInv
<1>9. replies' <= Len(wire') + Len(commands') /\ (replies' > Len(wire') => ~listening')
  BY <1>1, <1>2, <1>3, <1>5 DEF AnswersInv
<1> QED BY <1>3, <1>4, <1>6, <1>7, <1>8, <1>9 DEF ContextInv, AnswersInv

\* Ids change hands: the application's, and those given back.
LEMMA HandsKeep ==
  ASSUME ContextInv,
         \/ smemFreeShareMemory2 \/ smemGetShareMemory \/ UNCHANGED cvars
         \/ \E id \in AllIds : smemFreeShareMemory(id)
         \/ \E link \in links : LinkLost(link)
  PROVE  ContextInv'
<1>1. /\ UNCHANGED <<replies, subscribed, commands, wire, listening, setnames>>
      /\ \/ thread' = thread /\ dropping' = dropping
         \/ thread = "drop" /\ thread' = "loop" /\ dropping' = NoId
      /\ links' \subseteq links
  BY DEF smemFreeShareMemory2, smemGetShareMemory, cvars, smemFreeShareMemory, LinkLost
<1>2. sent' \subseteq Ids /\ lost' \subseteq Ids
  <2>1. sent \subseteq Ids /\ lost \subseteq Ids
    BY DEF ContextInv, ClientTypeOK
  <2>2. sent' \subseteq sent /\ lost' \subseteq lost \cup sent
    BY DEF smemFreeShareMemory2, smemGetShareMemory, cvars, smemFreeShareMemory, LinkLost, SMEMFREE
  <2> QED BY <2>1, <2>2
<1>3. hand' \subseteq AllIds /\ queue' \in Seq(AllIds) /\ Len(queue') <= Capacity
  <2>1. hand \subseteq AllIds /\ queue \in Seq(AllIds) /\ Len(queue) <= Capacity /\ Capacity \in Nat
    BY ClientConstants DEF ContextInv, ClientTypeOK
  <2>2. CASE smemGetShareMemory
    <3>1. queue # << >> /\ hand' = hand \cup {Head(queue)} /\ queue' = Tail(queue)
      BY <2>2 DEF smemGetShareMemory
    <3>2. /\ Head(queue) \in AllIds /\ Tail(queue) \in Seq(AllIds)
          /\ Len(Tail(queue)) = Len(queue) - 1 /\ Len(queue) \in Nat
      BY <2>1, <3>1, HeadTailProperties, LenProperties
    <3> QED BY <2>1, <3>1, <3>2
  <2>3. CASE hand' \subseteq hand /\ queue' = queue
    BY <2>1, <2>3
  <2> QED BY <2>2, <2>3 DEF smemFreeShareMemory2, cvars, smemFreeShareMemory, LinkLost
<1>4. ClientTypeOK'
  BY <1>1, <1>2, <1>3 DEF ContextInv, ClientTypeOK
<1>5. AnswersInv'
  BY <1>1 DEF ContextInv, AnswersInv
<1> QED BY <1>4, <1>5 DEF ContextInv

\* The invariant holds in every state of the context.
THEOREM ContextInvariant == ClientSpec => []ContextInv
<1>1. ClientInit => ContextInv
  <2> SUFFICES ASSUME ClientInit PROVE ContextInv
    OBVIOUS
  <2>1. commands \in Seq(Commands) /\ wire \in Seq(Replies) /\ queue \in Seq(AllIds)
        /\ Len(commands) = 0 /\ Len(wire) = 0 /\ Len(queue) = 0
    BY DEF ClientInit
  <2>2. ClientTypeOK
    <3>1. replies \in Nat /\ setnames \in 0..SetNames /\ Len(queue) <= Capacity
      BY <2>1, ClientConstants DEF ClientInit
    <3>2. subscribed \in BOOLEAN /\ listening \in BOOLEAN
      BY DEF ClientInit
    <3> QED BY <2>1, <3>1, <3>2 DEF ClientInit, ClientTypeOK, Commands, Replies
  <2> QED BY <2>1, <2>2 DEF ClientInit, ContextInv, AnswersInv
<1>2. ContextInv /\ [ClientNext]_cvars => ContextInv'
  <2> SUFFICES ASSUME ContextInv, [ClientNext]_cvars PROVE ContextInv'
    OBVIOUS
  <2>1. CASE smemAsyncThread \/ smemSetName
    BY <2>1, SendKeeps
  <2>2. CASE redisProcessCallbacks
    <3>1. thread = "loop" /\ wire # << >>
      BY <2>2 DEF redisProcessCallbacks
    <3>2. CASE Disconnected
      BY <3>1, <3>2, GoneKeeps
    <3>3. CASE /\ wire' = Tail(wire)
               /\ replies' = (IF replies > 0 THEN replies - 1 ELSE 0)
               /\ \/ replies = 0 /\ Head(wire).type = "array" /\ subCallback(Head(wire).id)
                  \/ UNCHANGED <<queue, thread, dropping>>
               /\ UNCHANGED <<commands, subscribed, listening, links, hand, setnames, sent, lost>>
      BY <3>1, <3>3, ProcessKeeps
    <3> QED BY <2>2, <3>2, <3>3 DEF redisProcessCallbacks
  <2>3. CASE smemFree \/ ConnectionLost
    BY <2>3, GoneKeeps DEF ConnectionLost
  <2>4. CASE ServerCommand
    BY <2>4, ServerKeeps
  <2>5. CASE \E id \in Ids : ServerPublish(id)
    BY <2>5, PublishKeeps
  <2>6. CASE \/ smemFreeShareMemory2 \/ smemGetShareMemory \/ UNCHANGED cvars
             \/ \E id \in AllIds : smemFreeShareMemory(id)
             \/ \E link \in links : LinkLost(link)
    BY <2>6, HandsKeep
  <2> QED BY <2>1, <2>2, <2>3, <2>4, <2>5, <2>6 DEF ClientNext
<1> QED BY <1>1, <1>2, PTL DEF ClientSpec

\* "pending regular callbacks will get a reply before pub/sub messages
\* arrive": no published id goes to setnameCallback.
THEOREM RegularFirst == ClientSpec => []PendingFirst
<1>1. ContextInv => PendingFirst
  <2> SUFFICES ASSUME ContextInv, replies > 0, wire # << >> PROVE Head(wire).type # "array"
    BY DEF PendingFirst
  <2>1. wire \in Seq(Replies) /\ replies \in Nat
    BY DEF ContextInv, ClientTypeOK, Replies
  <2>2. Len(wire) \in Nat /\ Len(wire) > 0 /\ Head(wire) = wire[1]
    BY <2>1, LenProperties, EmptySeq, HeadTailProperties
  <2>3. 1 \in 1..Len(wire) /\ 1 <= replies
    BY <2>1, <2>2
  <2> QED BY <2>2, <2>3 DEF ContextInv, AnswersInv
<1> QED BY <1>1, ContextInvariant, PTL

\* The assertion of redisProcessCallbacks holds.
THEOREM AnswersExpected == ClientSpec => []OnlySubscribed
<1>1. ContextInv => OnlySubscribed
  <2> SUFFICES ASSUME ContextInv, replies = 0, wire # << >>, ~subscribed PROVE FALSE
    BY DEF OnlySubscribed
  <2>1. wire \in Seq(Replies) /\ commands \in Seq(Commands)
    BY DEF ContextInv, ClientTypeOK, Replies, Commands
  <2>2. Len(wire) \in Nat /\ Len(wire) > 0 /\ Len(commands) \in Nat
    BY <2>1, LenProperties, EmptySeq
  <2> QED BY <2>2 DEF ContextInv, AnswersInv
<1> QED BY <1>1, ContextInvariant, PTL
-----------------------------------------------------------------------------
\* Where x is in s.
Occ(s, x) == {i \in DOMAIN s : s[i] = x}

\* The positions of a value are finitely many, and none iff it is not there.
LEMMA OccFinite ==
  ASSUME NEW S, NEW s \in Seq(S), NEW x
  PROVE  /\ IsFiniteSet(Occ(s, x)) /\ Cardinality(Occ(s, x)) \in Nat
         /\ Cardinality(Occ(s, x)) = 0 <=> ~Contains(s, x)
<1>1. DOMAIN s = 1..Len(s) /\ Len(s) \in Nat
  BY LenProperties
<1>2. IsFiniteSet(1..Len(s)) /\ Occ(s, x) \in SUBSET (1..Len(s))
  BY <1>1, FS_Interval DEF Occ
<1>3. IsFiniteSet(Occ(s, x))
  BY <1>2, FS_Subset
<1>4. Cardinality(Occ(s, x)) \in Nat /\ (Cardinality(Occ(s, x)) = 0 <=> Occ(s, x) = {})
  BY <1>3, FS_CardinalityType, FS_EmptySet
<1>5. Occ(s, x) = {} <=> ~Contains(s, x)
  BY <1>1 DEF Occ, Contains
<1> QED BY <1>3, <1>4, <1>5

\* Append adds one position.
LEMMA OccAppend ==
  ASSUME NEW S, NEW s \in Seq(S), NEW x, NEW y \in S
  PROVE  Cardinality(Occ(Append(s, y), x)) = Cardinality(Occ(s, x)) + (IF y = x THEN 1 ELSE 0)
<1>1. /\ DOMAIN s = 1..Len(s) /\ Len(s) \in Nat /\ DOMAIN Append(s, y) = 1..(Len(s) + 1)
      /\ \A i \in 1..Len(s) : Append(s, y)[i] = s[i]
      /\ Append(s, y)[Len(s) + 1] = y
  BY LenProperties, AppendProperties
<1>2. 1..(Len(s) + 1) = (1..Len(s)) \cup {Len(s) + 1} /\ Len(s) + 1 \notin 1..Len(s)
  BY <1>1
<1>3. IsFiniteSet(Occ(s, x)) /\ Cardinality(Occ(s, x)) \in Nat
  BY OccFinite
<1>4. CASE y = x
  <2>1. Occ(Append(s, y), x) = Occ(s, x) \cup {Len(s) + 1} /\ Len(s) + 1 \notin Occ(s, x)
    BY <1>1, <1>2, <1>4 DEF Occ
  <2>2. Cardinality(Occ(s, x) \cup {Len(s) + 1}) = Cardinality(Occ(s, x)) + 1
    BY <1>3, <2>1, FS_AddElement
  <2> QED BY <1>4, <2>1, <2>2
<1>5. CASE y # x
  <2>1. Occ(Append(s, y), x) = Occ(s, x)
    BY <1>1, <1>2, <1>5 DEF Occ
  <2> QED BY <1>3, <1>5, <2>1
<1> QED BY <1>4, <1>5

\* Tail removes the first position.
LEMMA OccTail ==
  ASSUME NEW S, NEW s \in Seq(S), NEW x, s # << >>
  PROVE  Cardinality(Occ(Tail(s), x)) = Cardinality(Occ(s, x)) - (IF Head(s) = x THEN 1 ELSE 0)
<1>1. /\ DOMAIN s = 1..Len(s) /\ Len(s) \in Nat /\ Len(s) > 0 /\ Head(s) = s[1]
      /\ Tail(s) \in Seq(S) /\ DOMAIN Tail(s) = 1..(Len(s) - 1)
      /\ \A i \in 1..(Len(s) - 1) : Tail(s)[i] = s[i + 1]
  BY LenProperties, HeadTailProperties, EmptySeq
<1> DEFINE A == Occ(Tail(s), x)
           B == Occ(s, x)
           f == [i \in A |-> i + 1]
<1>2. /\ IsFiniteSet(A) /\ IsFiniteSet(B) /\ Cardinality(A) \in Nat /\ Cardinality(B) \in Nat
  BY <1>1, OccFinite
<1>3. /\ \A i \in A : i \in 1..(Len(s) - 1) /\ s[i + 1] = x
      /\ \A i \in 1..(Len(s) - 1) : s[i + 1] = x => i \in A
      /\ \A i \in B : i \in 1..Len(s) /\ s[i] = x
      /\ \A i \in 1..Len(s) : s[i] = x => i \in B
  BY <1>1 DEF Occ
<1>4. B \ {1} \subseteq 1..Len(s) /\ (1 \in B <=> Head(s) = x)
  BY <1>1, <1>3
<1> HIDE DEF A, B
<1>5. ExistsBijection(A, B \ {1})
  <2>1. f \in [A -> B \ {1}]
    <3>1. \A i \in A : i + 1 \in B /\ i + 1 # 1
      BY <1>1, <1>3
    <3> QED BY <3>1
  <2>2. \A i, j \in A : f[i] = f[j] => i = j
    BY <1>3
  <2>3. \A k \in B \ {1} : \E i \in A : f[i] = k
    <3> SUFFICES ASSUME NEW k \in B \ {1} PROVE \E i \in A : f[i] = k
      OBVIOUS
    <3>1. k - 1 \in 1..(Len(s) - 1) /\ (k - 1) + 1 = k
      BY <1>1, <1>3
    <3>2. k - 1 \in A
      BY <1>3, <3>1
    <3> QED BY <3>1, <3>2
  <2> HIDE DEF f
  <2>4. f \in Bijection(A, B \ {1})
    BY <2>1, <2>2, <2>3 DEF Bijection, Injection, Surjection, IsInjective
  <2> QED BY <2>4 DEF ExistsBijection
<1>6. Cardinality(B \ {1}) = Cardinality(A)
  BY <1>2, <1>5, FS_Bijection
<1>7. Cardinality(B \ {1}) = IF 1 \in B THEN Cardinality(B) - 1 ELSE Cardinality(B)
  BY <1>2, FS_RemoveElement
<1>8. Cardinality(A) = Cardinality(B) - (IF Head(s) = x THEN 1 ELSE 0)
  BY <1>2, <1>4, <1>6, <1>7
<1> QED BY <1>8 DEF A, B

\* What a step must leave of the places of an id.
LEMMA PlacesParts ==
  ASSUME NEW id \in Ids
  PROVE  /\ ContextInv =>
              /\ Cardinality(Occ(wire, Message(id))) \in Nat /\ Cardinality(Occ(queue, id)) \in Nat
              /\ Places(id) = Cardinality(Occ(wire, Message(id))) + Cardinality(Occ(queue, id))
                              + (IF dropping = id THEN 1 ELSE 0) + (IF id \in hand THEN 1 ELSE 0)
                              + (IF id \in lost THEN 1 ELSE 0)
         /\ Places(id)' = Cardinality(Occ(wire', Message(id))) + Cardinality(Occ(queue', id))
                          + (IF dropping' = id THEN 1 ELSE 0) + (IF id \in hand' THEN 1 ELSE 0)
                          + (IF id \in lost' THEN 1 ELSE 0)
<1>1. ContextInv => wire \in Seq(Replies) /\ queue \in Seq(AllIds)
  BY DEF ContextInv, ClientTypeOK, Replies
<1>2. ContextInv => /\ Cardinality(Occ(wire, Message(id))) \in Nat
                    /\ Cardinality(Occ(queue, id)) \in Nat
  BY <1>1, OccFinite
<1>3. /\ Occ(wire, Message(id)) = {i \in DOMAIN wire : wire[i] = Message(id)}
      /\ Occ(queue, id) = {i \in DOMAIN queue : queue[i] = id}
      /\ Occ(wire', Message(id)) = {i \in DOMAIN wire' : wire'[i] = Message(id)}
      /\ Occ(queue', id) = {i \in DOMAIN queue' : queue'[i] = id}
  BY DEF Occ
<1>4. Message(id)' = Message(id)
  BY DEF Message
<1> QED BY <1>2, <1>3, <1>4 DEF Places

\* The server counts an id anew when it is on the wire.
LEMMA PublishOnce ==
  ASSUME ContextInv, HeldOnce, NEW x \in Ids, ServerPublish(x)
  PROVE  HeldOnce'
<1> SUFFICES ASSUME NEW id \in Ids PROVE Places(id)' = IF id \in sent' THEN 1 ELSE 0
  BY DEF HeldOnce
<1>1. /\ x \notin sent /\ wire' = Append(wire, Message(x)) /\ sent' = sent \cup {x}
      /\ UNCHANGED <<queue, dropping, hand, lost>>
  BY DEF ServerPublish
<1>2. wire \in Seq(Replies) /\ Message(x) \in Replies /\ (Message(x) = Message(id) <=> x = id)
  BY ReplyKinds DEF ContextInv, ClientTypeOK, Replies, AllIds, Message
<1>3. Cardinality(Occ(wire', Message(id)))
        = Cardinality(Occ(wire, Message(id))) + (IF x = id THEN 1 ELSE 0)
  BY <1>1, <1>2, OccAppend
<1>4. Places(id) = IF id \in sent THEN 1 ELSE 0
  BY DEF HeldOnce
<1> QED BY <1>1, <1>3, <1>4, PlacesParts

\* An answer to a command is no id of Ids.
LEMMA AnswerOnce ==
  ASSUME AckId \notin Ids, ContextInv, HeldOnce, ServerCommand
  PROVE  HeldOnce'
<1> SUFFICES ASSUME NEW id \in Ids PROVE Places(id)' = IF id \in sent' THEN 1 ELSE 0
  BY DEF HeldOnce
<1>1. commands # << >> /\ UNCHANGED <<queue, dropping, hand, lost, sent>>
  BY DEF ServerCommand
<1>2. PICK r \in AnswersTo(Head(commands)) : wire' = Append(wire, r)
  BY DEF ServerCommand
<1>3. Head(commands) \in Commands
  BY <1>1, HeadTailProperties DEF ContextInv, ClientTypeOK, Commands
<1>4. r \in {Status, Error, Ack}
  BY <1>3 DEF AnswersTo, Commands
<1>5. wire \in Seq(Replies) /\ r \in Replies /\ r # Message(id)
  <2>1. Ack = Message(AckId) /\ AckId \in AllIds /\ id \in AllIds
    BY DEF Ack, Message, AllIds
  <2>2. Ack.id = AckId /\ Message(id).id = id /\ Message(id).type = "array"
    BY <2>1, ReplyKinds
  <2>3. r # Message(id)
    BY <1>4, <2>2, ReplyKinds
  <2> QED BY <1>4, <2>3, ReplyKinds DEF ContextInv, ClientTypeOK, Replies
<1>6. Cardinality(Occ(wire', Message(id))) = Cardinality(Occ(wire, Message(id))) + 0
  BY <1>2, <1>5, OccAppend
<1>7. Places(id) = IF id \in sent THEN 1 ELSE 0
  BY DEF HeldOnce
<1> QED BY <1>1, <1>6, <1>7, PlacesParts

\* subCallback puts an id into the queue or has it to give back.
LEMMA ProcessOnce ==
  ASSUME ContextInv, HeldOnce, thread = "loop", wire # << >>, wire' = Tail(wire),
         IF replies = 0 /\ Head(wire).type = "array"
         THEN subCallback(Head(wire).id) ELSE UNCHANGED <<queue, thread, dropping>>,
         UNCHANGED <<hand, sent, lost>>
  PROVE  HeldOnce'
<1> SUFFICES ASSUME NEW id \in Ids PROVE Places(id)' = IF id \in sent' THEN 1 ELSE 0
  BY DEF HeldOnce
<1>1. /\ wire \in Seq(Replies) /\ queue \in Seq(AllIds) /\ dropping = NoId /\ NoId # id
      /\ Head(wire) \in Replies /\ replies \in Nat
  BY HeadTailProperties, ClientConstants DEF ContextInv, ClientTypeOK, AnswersInv, Replies
<1>2. Places(id) = IF id \in sent THEN 1 ELSE 0
  BY DEF HeldOnce
<1>3. Cardinality(Occ(wire', Message(id)))
        = Cardinality(Occ(wire, Message(id))) - (IF Head(wire) = Message(id) THEN 1 ELSE 0)
  BY <1>1, OccTail
<1>4. CASE replies = 0 /\ Head(wire).type = "array"
  <2>1. /\ Head(wire).id \in AllIds /\ (Head(wire) = Message(id) <=> Head(wire).id = id)
    BY <1>1, <1>4, ReplyKinds DEF AllIds
  <2>2. CASE queue' = Append(queue, Head(wire).id) /\ UNCHANGED dropping
    <3>1. Cardinality(Occ(queue', id))
            = Cardinality(Occ(queue, id)) + (IF Head(wire).id = id THEN 1 ELSE 0)
      BY <1>1, <2>1, <2>2, OccAppend
    <3> QED BY <1>2, <1>3, <2>1, <2>2, <3>1, PlacesParts
  <2>3. CASE queue' = queue /\ dropping' = Head(wire).id
    BY <1>1, <1>2, <1>3, <2>1, <2>3, PlacesParts
  <2> QED BY <1>4, <2>2, <2>3 DEF subCallback
<1>5. CASE ~(replies = 0 /\ Head(wire).type = "array")
  <2>1. Head(wire).type # "array"
    <3>1. CASE replies = 0
      BY <1>5, <3>1
    <3>2. CASE replies > 0
      <4>1. Len(wire) \in Nat /\ Len(wire) > 0 /\ Head(wire) = wire[1]
        BY <1>1, LenProperties, EmptySeq, HeadTailProperties
      <4>2. 1 \in 1..Len(wire) /\ 1 <= replies
        BY <1>1, <3>2, <4>1
      <4> QED BY <4>1, <4>2 DEF ContextInv, AnswersInv
    <3> QED BY <1>1, <3>1, <3>2
  <2>2. Head(wire) # Message(id)
    BY <2>1, ReplyKinds DEF AllIds
  <2>3. Cardinality(Occ(wire', Message(id))) = Cardinality(Occ(wire, Message(id)))
    BY <1>3, <2>2, PlacesParts
  <2> QED BY <1>2, <1>5, <2>3, PlacesParts
<1> QED BY <1>4, <1>5

\* When the connection goes, what was on the wire is lost.
LEMMA DisconnectedOnce ==
  ASSUME ContextInv, HeldOnce, Disconnected
  PROVE  HeldOnce'
<1> SUFFICES ASSUME NEW id \in Ids PROVE Places(id)' = IF id \in sent' THEN 1 ELSE 0
  BY DEF HeldOnce
<1>1. /\ wire' = << >> /\ lost' = lost \cup {y \in Ids : Contains(wire, Message(y))}
      /\ UNCHANGED <<queue, dropping, hand, sent>>
  BY DEF Disconnected
<1>2. wire \in Seq(Replies)
  BY DEF ContextInv, ClientTypeOK, Replies
<1>3. Cardinality(Occ(wire, Message(id))) = 0 <=> ~Contains(wire, Message(id))
  BY <1>2, OccFinite
<1>4. Cardinality(Occ(wire', Message(id))) = 0
  <2>1. << >> \in Seq(Replies) /\ ~Contains(<< >>, Message(id))
    BY DEF Contains
  <2> QED BY <1>1, <2>1, OccFinite
<1>5. Places(id) = IF id \in sent THEN 1 ELSE 0
  BY DEF HeldOnce
<1>6. id \in lost' <=> id \in lost \/ Cardinality(Occ(wire, Message(id))) # 0
  BY <1>1, <1>3
<1> QED BY <1>1, <1>4, <1>5, <1>6, PlacesParts

\* SMEMFREE gives back an id that its caller has, or loses it.
LEMMA FreeOnce ==
  ASSUME AckId \notin Ids, ContextInv, HeldOnce,
         smemFreeShareMemory2 \/ \E x \in AllIds : smemFreeShareMemory(x)
  PROVE  HeldOnce'
<1> SUFFICES ASSUME NEW id \in Ids PROVE Places(id)' = IF id \in sent' THEN 1 ELSE 0
  BY DEF HeldOnce
<1>1. Places(id) = IF id \in sent THEN 1 ELSE 0
  BY DEF HeldOnce
<1>2. NoId # id /\ wire' = wire /\ queue' = queue
  BY ClientConstants DEF smemFreeShareMemory2, smemFreeShareMemory
<1>3. PICK x, link :
        /\ SMEMFREE(x, link)
        /\ \/ x = dropping /\ dropping' = NoId /\ hand' = hand
           \/ x \in hand /\ hand' = hand \ {x} /\ dropping' = dropping
  BY DEF smemFreeShareMemory2, smemFreeShareMemory
<1>4. CASE x = id
  <2>1. Places(id) = 1 /\ id \in sent
    BY <1>1, <1>3, <1>4, PlacesParts
  <2>2. (sent' = sent \ {id} /\ lost' = lost) \/ (lost' = lost \cup {id} /\ sent' = sent)
    BY <1>3, <1>4, <2>1 DEF SMEMFREE
  <2> QED BY <1>2, <1>3, <1>4, <2>1, <2>2, PlacesParts
<1>5. CASE x # id
  <2>1. (id \in sent' <=> id \in sent) /\ (id \in lost' <=> id \in lost)
    BY <1>3, <1>5 DEF SMEMFREE
  <2>2. (id \in hand' <=> id \in hand) /\ (dropping' = id <=> dropping = id)
    BY <1>2, <1>3, <1>5
  <2> QED BY <1>1, <1>2, <2>1, <2>2, PlacesParts
<1> QED BY <1>4, <1>5

\* The application takes an id that it does not have.
LEMMA GetOnce ==
  ASSUME ContextInv, HeldOnce, smemGetShareMemory
  PROVE  HeldOnce'
<1> SUFFICES ASSUME NEW id \in Ids PROVE Places(id)' = IF id \in sent' THEN 1 ELSE 0
  BY DEF HeldOnce
<1>1. /\ queue # << >> /\ hand' = hand \cup {Head(queue)} /\ queue' = Tail(queue)
      /\ UNCHANGED <<wire, dropping, sent, lost>>
  BY DEF smemGetShareMemory
<1>2. queue \in Seq(AllIds)
  BY DEF ContextInv, ClientTypeOK
<1>3. Cardinality(Occ(queue', id))
        = Cardinality(Occ(queue, id)) - (IF Head(queue) = id THEN 1 ELSE 0)
  BY <1>1, <1>2, OccTail
<1>4. Places(id) = IF id \in sent THEN 1 ELSE 0
  BY DEF HeldOnce
<1>5. Head(queue) = id => Cardinality(Occ(queue, id)) > 0
  <2>1. Len(queue) \in Nat /\ Len(queue) > 0 /\ Head(queue) = queue[1]
    BY <1>1, <1>2, LenProperties, EmptySeq, HeadTailProperties
  <2>2. Head(queue) = id => Contains(queue, id)
    BY <2>1 DEF Contains
  <2> QED BY <1>2, <2>2, OccFinite
<1> QED BY <1>1, <1>3, <1>4, <1>5, PlacesParts

\* An id that the server counts for this consumer is in exactly one place, and
\* no other id is in any, if the number in the answer to SMEMSUBSCRIBE is no id.
THEOREM IdsHeldOnce ==
  ASSUME AckId \notin Ids
  PROVE  ClientSpec => []HeldOnce
<1>1. ClientInit => HeldOnce
  <2> SUFFICES ASSUME ClientInit, NEW id \in Ids PROVE Places(id) = IF id \in sent THEN 1 ELSE 0
    BY DEF HeldOnce
  <2>1. {i \in DOMAIN wire : wire[i] = Message(id)} = {}
        /\ {i \in DOMAIN queue : queue[i] = id} = {}
    BY DEF ClientInit
  <2>2. NoId # id
    BY ClientConstants
  <2>3. Cardinality({}) = 0
    BY FS_EmptySet
  <2> QED BY <2>1, <2>2, <2>3 DEF ClientInit, Places
<1>2. ContextInv /\ HeldOnce /\ [ClientNext]_cvars => HeldOnce'
  <2> SUFFICES ASSUME ContextInv, HeldOnce, [ClientNext]_cvars PROVE HeldOnce'
    OBVIOUS
  <2>1. CASE UNCHANGED <<wire, queue, dropping, hand, lost, sent>>
    <3> SUFFICES ASSUME NEW id \in Ids PROVE Places(id)' = IF id \in sent' THEN 1 ELSE 0
      BY DEF HeldOnce
    <3>1. Places(id) = IF id \in sent THEN 1 ELSE 0
      BY DEF HeldOnce
    <3> QED BY <2>1, <3>1, PlacesParts
  <2>2. CASE redisProcessCallbacks
    <3>1. CASE Disconnected
      BY <3>1, DisconnectedOnce
    <3>2. CASE ~Disconnected
      BY <2>2, <3>2, ProcessOnce DEF redisProcessCallbacks
    <3> QED BY <3>1, <3>2
  <2>3. CASE ConnectionLost
    BY <2>3, DisconnectedOnce DEF ConnectionLost
  <2>4. CASE smemFree
    <3> SUFFICES ASSUME NEW id \in Ids PROVE Places(id)' = IF id \in sent' THEN 1 ELSE 0
      BY DEF HeldOnce
    <3>1. /\ wire' = << >> /\ queue' = << >> /\ dropping' = NoId /\ hand' = {}
          /\ lost' = sent /\ sent' = sent /\ NoId # id
      BY <2>4, ClientConstants DEF smemFree
    <3>2. Occ(wire', Message(id)) = {} /\ Occ(queue', id) = {}
      BY <3>1 DEF Occ
    <3>3. Cardinality(Occ(wire', Message(id))) = 0 /\ Cardinality(Occ(queue', id)) = 0
      BY <3>2, FS_EmptySet
    <3>4. Places(id)' = 0 + 0 + 0 + 0 + (IF id \in lost' THEN 1 ELSE 0)
      BY <3>1, <3>3, PlacesParts
    <3> QED BY <3>1, <3>4
  <2>5. CASE ServerCommand
    BY <2>5, AnswerOnce
  <2>6. CASE \E id \in Ids : ServerPublish(id)
    BY <2>6, PublishOnce
  <2>7. CASE smemFreeShareMemory2 \/ \E id \in AllIds : smemFreeShareMemory(id)
    BY <2>7, FreeOnce
  <2>8. CASE smemGetShareMemory
    BY <2>8, GetOnce
  <2>9. CASE smemAsyncThread \/ smemSetName \/ (\E link \in links : LinkLost(link))
             \/ UNCHANGED cvars
    <3>1. UNCHANGED <<wire, queue, dropping, hand, lost, sent>>
      BY <2>9 DEF smemAsyncThread, smemSetName, LinkLost, cvars
    <3> QED BY <2>1, <3>1
  <2> QED BY <2>2, <2>3, <2>4, <2>5, <2>6, <2>7, <2>8, <2>9 DEF ClientNext
<1> QED BY <1>1, <1>2, ContextInvariant, PTL DEF ClientSpec
=============================================================================
