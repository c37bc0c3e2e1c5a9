----------------------------- MODULE SmemPubSub -----------------------------
(***************************************************************************)
(* Who receives what: the subscriptions of the modified Redis server       *)
(* (redis/src/smem4redis.c, with createClient and freeClient of            *)
(* redis/src/networking.c).                                                *)
(*                                                                         *)
(* A subscription is kept twice: the client has the set of its channels    *)
(* (c->smempubsub_channels) and the server has, for each channel, the list *)
(* of its clients (server.smempubsub_channels).  SMEMPUBLISH uses the      *)
(* list; a disconnecting client is taken out of the lists of its set.      *)
(*                                                                         *)
(* A client stands for the memory of one connection: after freeClient the  *)
(* next connection may get the same memory, and a list that still holds it *)
(* points to whatever is there.                                            *)
(*                                                                         *)
(* Some definitions are preceded by a variant with a plausible mistake;    *)
(* the variants are not used by the specification.                         *)
(***************************************************************************)
EXTENDS Naturals, SequencesExt

CONSTANTS
  Clients,   \* addresses of client structures
  Channels,
  Names,     \* names for CLIENT SETNAME
  NoName

ASSUME NoNameIsNone == NoName \notin Names

VARIABLES
  connected,  \* the clients that exist
  name,       \* c->name
  flagged,    \* the clients with CLIENT_PUBSUB in c->flags
  channels,   \* c->smempubsub_channels
  entries,    \* the keys of server.smempubsub_channels
  lists,      \* the values; empty where there is no key
  aborted     \* an assertion failed and the server is gone

svars == <<connected, name, flagged, channels, entries, lists, aborted>>

PubSubInit ==
  /\ connected = {}
  /\ name = [c \in Clients |-> NoName]
  /\ flagged = {}
  /\ channels = [c \in Clients |-> {}]
  /\ entries = {}
  /\ lists = [ch \in Channels |-> << >>]
  /\ aborted = FALSE

\* c->name of a new client.
NewName == NoName

createClient(c) ==
  /\ c \notin connected
  /\ connected' = connected \cup {c}
  /\ name' = [name EXCEPT ![c] = NewName]
  /\ channels' = [channels EXCEPT ![c] = {}]
  /\ flagged' = flagged \ {c}
  /\ UNCHANGED <<entries, lists, aborted>>

\* processCommand refuses most commands of a subscribed client.
MayCommand(c) == c \in connected \ flagged

\* CLIENT SETNAME; the empty name removes the name.
clientSetName(c, n) ==
  /\ MayCommand(c)
  /\ name' = [name EXCEPT ![c] = n]
  /\ UNCHANGED <<connected, flagged, channels, entries, lists, aborted>>

\* SMEMSUBSCRIBE of all the channels of chs.
smemsubscribeCommand(c, chs) ==
  LET new == chs \ channels[c]
  IN  /\ MayCommand(c)
      /\ channels' = [channels EXCEPT ![c] = @ \cup chs]
      /\ entries' = entries \cup new
      /\ lists' = [ch \in Channels |-> IF ch \in new THEN Append(lists[ch], c)
                                                     ELSE lists[ch]]
      /\ flagged' = flagged \cup {c}
      /\ UNCHANGED <<connected, name, aborted>>
-----------------------------------------------------------------------------
\* Where channel ch's list holds a client named n, and where such a client
\* also has ch in its own set.
SeenAt(ch, n) == {i \in DOMAIN lists[ch] : name[lists[ch][i]] = n}
HitAt(ch, n) == {i \in SeenAt(ch, n) : ch \in channels[lists[ch][i]]}

Seen(n) == {ch \in entries : SeenAt(ch, n) # {}}
Hit(n) == {ch \in entries : HitAt(ch, n) # {}}

\* The client at which the walk of a list stops, or the last one it passed.
Found(ch, n) ==
  lists[ch][IF ch \in Hit(n) THEN Min(HitAt(ch, n)) ELSE Max(SeenAt(ch, n))]

\* The walk takes each channel at which it stops out of the client's set.
NothingDropped(n) == channels
Dropped(n) ==
  [c \in Clients |-> channels[c] \ {ch \in Hit(n) : Found(ch, n) = c}]

\* The node at which the walk of src's list stopped goes to the head of dst's.
CopyNode(src, dst, n) ==
  [lists EXCEPT ![dst] = Cons(Found(src, n), lists[dst])]
LoseNode(src, dst, n) ==
  [lists EXCEPT ![src] = RemoveAt(lists[src], Min(HitAt(src, n)))]
smemlistMoveNode(src, dst, n) ==
  LET node == Min(HitAt(src, n))
      cut == [lists EXCEPT ![src] = RemoveAt(lists[src], node)]
  IN  [cut EXCEPT ![dst] = Cons(lists[src][node], cut[dst])]

\* SMEMSWITCH pub n: the client named n gets channel pub instead of what it
\* has.  The walk over the hash table meets the channels in any order; last is
\* the last one where it saw the name, and src the last one where it stopped.
smemswitchCommand(pub, n) ==
  /\ UNCHANGED <<connected, name, flagged, aborted>>
  /\ \/ Seen(n) = {} /\ UNCHANGED <<channels, entries, lists>>
     \/ \E last \in Seen(n) :
          LET c == Found(last, n)
              dict == Dropped(n)
          IN  IF pub \in dict[c]
              THEN channels' = dict /\ UNCHANGED <<entries, lists>>
              ELSE /\ channels' = [dict EXCEPT ![c] = @ \cup {pub}]
                   /\ entries' = entries \cup {pub}
                   /\ \/ Hit(n) = {} /\ UNCHANGED lists
                      \/ \E src \in Hit(n) :
                           /\ last \in Hit(n) => src = last
                           /\ lists' = smemlistMoveNode(src, pub, n)
-----------------------------------------------------------------------------
\* The channels at which the assertions of smempubsubUnsubscribeChannel hold.
Listed(c) == {ch \in entries : Contains(lists[ch], c)}

Unlisted(c) ==
  [ch \in Channels |-> IF ch \in channels[c] THEN RemoveFirst(lists[ch], c)
                                             ELSE lists[ch]]

\* Every channel of the client's set: out of its list, and a list that is empty
\* goes with its entry.
smempubsubUnsubscribeAllChannels(c) ==
  IF channels[c] \subseteq Listed(c)
  THEN /\ channels' = [channels EXCEPT ![c] = {}]
       /\ lists' = Unlisted(c)
       /\ entries' = entries \ {ch \in channels[c] : Unlisted(c)[ch] = << >>}
       /\ UNCHANGED aborted
  ELSE aborted' = TRUE /\ UNCHANGED <<channels, entries, lists>>

\* The connection ends and its memory is given back.
freeClient(c) ==
  /\ c \in connected
  /\ smempubsubUnsubscribeAllChannels(c)
  /\ connected' = connected \ {c}
  /\ UNCHANGED <<name, flagged>>
-----------------------------------------------------------------------------
\* What the client library does (asyncThread of redis/test/smem_client.c): a
\* connection sets its name, then subscribes to one channel.  That no two
\* connections use the same name is up to the users.
DeviceSetName(c, n) ==
  /\ n \notin {name[d] : d \in connected}
  /\ clientSetName(c, n)

DeviceNext ==
  /\ ~aborted
  /\ \/ \E c \in Clients :
          \/ createClient(c)
          \/ \E n \in Names : DeviceSetName(c, n)
          \/ \E ch \in Channels : smemsubscribeCommand(c, {ch})
          \/ freeClient(c)
     \/ \E pub \in Channels, n \in Names : smemswitchCommand(pub, n)

\* Connections that keep to one channel but share names, and connections with
\* names of their own that subscribe to several channels.
SharedNamesNext ==
  DeviceNext \/ (~aborted /\ \E c \in Clients, n \in Names : clientSetName(c, n))

ManyChannelsNext ==
  \/ DeviceNext
  \/ /\ ~aborted
     /\ \E c \in Clients, chs \in SUBSET Channels \ {{}} : smemsubscribeCommand(c, chs)

DeviceSpec == PubSubInit /\ [][DeviceNext]_svars
SharedNamesSpec == PubSubInit /\ [][SharedNamesNext]_svars
ManyChannelsSpec == PubSubInit /\ [][ManyChannelsNext]_svars
-----------------------------------------------------------------------------
\* The type invariant of the two tables.
PubSubTypeOK ==
  /\ connected \subseteq Clients
  /\ name \in [Clients -> Names \cup {NoName}]
  /\ flagged \subseteq Clients
  /\ channels \in [Clients -> SUBSET Channels]
  /\ entries \subseteq Channels
  /\ lists \in [Channels -> Seq(Clients)]
  /\ aborted \in BOOLEAN

\* The client's set and the server's lists say the same, and a client is in a
\* list once: a published buffer is counted once for each interested client.
TablesAgree ==
  \A ch \in Channels :
    /\ IsInjective(lists[ch])
    /\ \A c \in Clients : Contains(lists[ch], c) <=> ch \in channels[c]

\* The assertions of smempubsubUnsubscribeChannel hold: a channel of the
\* client has a list, and the client is in it.
NoAssertionFails == ~aborted

\* The lists hold connections that exist: freeClient leaves no pointer to the
\* memory it gives back.
OnlyLiveReceivers ==
  \A ch \in Channels : ToSet(lists[ch]) \subseteq connected

\* SMEMSWITCH pub n puts the device with that name, if it is subscribed, on
\* channel pub and on no other, and leaves every other device where it is.
SwitchMovesOnlyNamed ==
  [][\A pub \in Channels, n \in Names : smemswitchCommand(pub, n) =>
       \A c \in connected : channels'[c] =
         IF name[c] = n /\ channels[c] # {} THEN {pub} ELSE channels[c]]_svars

\* What a subscriber receives, as SMEMPUBLISH sees it: the channels whose
\* list it is in.
R == INSTANCE SmemRouting WITH
       route <- [c \in Clients |-> {ch \in Channels : Contains(lists[ch], c)}]

\* The server implements the routing of channels to devices.
Routed == R!RoutingSpec
=============================================================================
