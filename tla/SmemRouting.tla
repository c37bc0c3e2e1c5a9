---------------------------- MODULE SmemRouting ----------------------------
(***************************************************************************)
(* What the subscriptions of the server promise: a device receives from at *)
(* most one channel at a time, the one that it joined or was last switched *)
(* to, until it leaves.                                                    *)
(***************************************************************************)
CONSTANTS Clients, Channels

VARIABLE route   \* the channels that a client receives from

RoutingInit == route = [c \in Clients |-> {}]

Join(c, ch) ==
  /\ route[c] = {}
  /\ route' = [route EXCEPT ![c] = {ch}]

Switch(c, ch) ==
  /\ route[c] # {}
  /\ route' = [route EXCEPT ![c] = {ch}]

Leave(c) == route' = [route EXCEPT ![c] = {}]

RoutingNext ==
  \E c \in Clients :
    \/ Leave(c)
    \/ \E ch \in Channels : Join(c, ch) \/ Switch(c, ch)

RoutingSpec == RoutingInit /\ [][RoutingNext]_route
=============================================================================
