---------------------------- MODULE WsInterface ----------------------------
(***************************************************************************)
(* The websocket routes of the server: WsInterface, and the two services   *)
(* that have a route of their own, GpioRemoteService and FsRemoteService.  *)
(* Clients connect and leave; on the route of WsInterface notifications    *)
(* are broadcast to the registered instances and a reply finds its client  *)
(* again by key; FsRemoteService answers on the socket it was asked on.    *)
(*                                                                         *)
(* Each class keeps a map of its instances and keys them in the same way.  *)
(* A connection has at most one instance, so both are named by a member of *)
(* Conns.  Of the web server only this is used: it keeps at most           *)
(* MaxClients connections open, on all routes together                     *)
(* (WebServer.cpp:24-26), builds the instance when the socket opens and    *)
(* calls onClose when it closes.  What is sent through an instance whose   *)
(* socket is closed reaches nobody.                                        *)
(***************************************************************************)
EXTENDS Naturals, FiniteSets, Sequences

CONSTANTS
  Conns,       \* the connections clients ever open, one after the other
  RouteOf,     \* RouteOf[c]: the route c connects to
  MaxClients,  \* MAX_CLIENTS
  MaxMessages  \* bound: messages sent in a behaviour

Routes == {"/ws", "/gpio", "/fs"}

ASSUME WsAssumption ==
  /\ RouteOf \in [Conns -> Routes]
  /\ MaxClients \in Nat \ {0} /\ MaxMessages \in Nat

VARIABLES
  instances,  \* instances[r]: the map of the class of route r; the key
              \* "wsClient#n" of WsInterface is n, as it is for the others
  clientKey,  \* clientKey[c]: the key the instance of c was constructed with
  status,     \* status[c]: the life of the connection
  inbox,      \* inbox[c]: the messages the client has received
  due,        \* history: the messages sent to c, or to all, while c was open
  sent        \* history: how many messages were sent; each is its number

vars == <<instances, clientKey, status, inbox, due, sent>>

Open == {c \in Conns : status[c] = "open"}
Size(r) == Cardinality(DOMAIN instances[r])

Init ==
  /\ instances = [r \in Routes |-> << >>]
  /\ clientKey = [c \in Conns |-> 0]
  /\ status = [c \in Conns |-> "idle"]
  /\ inbox = [c \in Conns |-> << >>]
  /\ due = [c \in Conns |-> << >>]
  /\ sent = 0

TypeOK ==
  /\ DOMAIN instances = Routes
  /\ \A r \in Routes : DOMAIN instances[r] \subseteq 0..(MaxClients - 1)
  /\ \A r \in Routes : \A k \in DOMAIN instances[r] : instances[r][k] \in Conns
  /\ clientKey \in [Conns -> 0..(MaxClients - 1)]
  /\ status \in [Conns -> {"idle", "open", "refused", "closed"}]
  /\ inbox \in [Conns -> Seq(Nat)]
  /\ due \in [Conns -> Seq(Nat)]
  /\ sent \in Nat

-----------------------------------------------------------------------------
(* std::map::insert does not replace what a key is already mapped to. *)
Insert(map, key, c) ==
  [k \in DOMAIN map \cup {key} |-> IF k \in DOMAIN map THEN map[k] ELSE c]

(* Seeded fault: the last place is given away twice. *)
HasRoomForOne(c) == Size(RouteOf[c]) <= MaxClients

HasRoom(c) == Size(RouteOf[c]) < MaxClients

(* A client connects and gets an instance, keyed by the size of the map ... *)
InstanceOnClientConnect(c) ==
  /\ status[c] = "idle" /\ Cardinality(Open) < MaxClients
  /\ HasRoom(c)
  /\ clientKey' = [clientKey EXCEPT ![c] = Size(RouteOf[c])]
  /\ instances' = [instances EXCEPT ![RouteOf[c]] = Insert(@, Size(RouteOf[c]), c)]
  /\ status' = [status EXCEPT ![c] = "open"]
  /\ UNCHANGED <<inbox, due, sent>>

(* ... or none, once the map has MAX_CLIENTS entries. *)
RejectClient(c) ==
  /\ status[c] = "idle" /\ Cardinality(Open) < MaxClients
  /\ ~HasRoom(c)
  /\ status' = [status EXCEPT ![c] = "refused"]
  /\ UNCHANGED <<instances, clientKey, inbox, due, sent>>

(* onCreate, which the server calls on the route of the connection. *)
OnCreate(c) == InstanceOnClientConnect(c) \/ RejectClient(c)

(* Seeded fault: the instance is taken out of the map, as the commented-out  *)
(* lines of onClose meant to, and the size of the map names a key again.     *)
OnCloseErases(c) ==
  /\ status[c] = "open"
  /\ status' = [status EXCEPT ![c] = "closed"]
  /\ instances' = [instances EXCEPT ![RouteOf[c]] =
                     [k \in DOMAIN @ \ {clientKey[c]} |-> @[k]]]
  /\ UNCHANGED <<clientKey, inbox, due, sent>>

(* onClose only writes a log: the map keeps the instance. *)
OnClose(c) ==
  /\ status[c] = "open"
  /\ status' = [status EXCEPT ![c] = "closed"]
  /\ UNCHANGED <<instances, clientKey, inbox, due, sent>>

(* The next message is sent through every instance of a set of them; the     *)
(* clients whose socket is open receive it.                                  *)
SendThrough(through, to) ==
  /\ sent < MaxMessages
  /\ sent' = sent + 1
  /\ inbox' = [c \in Conns |-> IF c \in through \cap Open
                                 THEN Append(inbox[c], sent') ELSE inbox[c]]
  /\ due' = [c \in Conns |-> IF c \in to \cap Open
                               THEN Append(due[c], sent') ELSE due[c]]
  /\ UNCHANGED <<instances, clientKey, status>>

NotifyAll ==
  SendThrough({instances["/ws"][k] : k \in DOMAIN instances["/ws"]},
              {c \in Conns : RouteOf[c] = "/ws"})

(* The instance that clientInstance(key) returns, if the map has one. *)
ClientInstance(key) == {instances["/ws"][k] : k \in DOMAIN instances["/ws"] \cap {key}}

(* Called on the instance of an open connection, to answer its client. *)
NotifyClient(c) ==
  /\ status[c] = "open" /\ RouteOf[c] = "/ws"
  /\ SendThrough(ClientInstance(clientKey[c]), {c})

(* FsRemoteService::extractMsg answers a read with this->send. *)
Answer(c) ==
  /\ status[c] = "open" /\ RouteOf[c] = "/fs"
  /\ SendThrough({c}, {c})

Next ==
  \/ \E c \in Conns : \/ OnCreate(c)
                      \/ OnClose(c)
                      \/ NotifyClient(c)
                      \/ Answer(c)
  \/ NotifyAll

Spec == Init /\ [][Next]_vars

-----------------------------------------------------------------------------
(* WsInterface.cpp:83-97: an open client has received every broadcast of its *)
(* route and every reply of its own since it connected, in order and once,   *)
(* and nobody else's replies, however often clients came and left on any of  *)
(* the routes.  The keys are sizes of the map, so this depends on the map    *)
(* never shrinking.                                                          *)
Delivered == \A c \in Open : inbox[c] = due[c]
=============================================================================
