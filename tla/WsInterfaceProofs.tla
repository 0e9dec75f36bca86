------------------------- MODULE WsInterfaceProofs -------------------------
(***************************************************************************)
(* Proofs about the websocket interface, for any number of connections,    *)
(* places and messages.                                                    *)
(***************************************************************************)
EXTENDS WsInterface, FiniteSetTheorems, TLAPS

Key == 0..(MaxClients - 1)

(* On each route the keys in use are the numbers below their count, so the   *)
(* next one is fresh; and the key of a client that ever got an instance maps *)
(* to it.                                                                    *)
Contiguous(r) == \E n \in 0..MaxClients : DOMAIN instances[r] = 0..(n - 1)
OwnKey == \A c \in Conns : status[c] \in {"open", "closed"} =>
             /\ clientKey[c] \in DOMAIN instances[RouteOf[c]]
             /\ instances[RouteOf[c]][clientKey[c]] = c
NoTwice == \A r \in Routes : \A k \in DOMAIN instances[r] :
             /\ clientKey[instances[r][k]] = k
             /\ RouteOf[instances[r][k]] = r
             /\ status[instances[r][k]] \in {"open", "closed"}
MapInv == (\A r \in Routes : Contiguous(r)) /\ OwnKey /\ NoTwice

-----------------------------------------------------------------------------
LEMMA SizeOfPrefix ==
  ASSUME NEW n \in Nat
  PROVE  Cardinality(0..(n - 1)) = n
<1>1. Cardinality(0..(n - 1)) = IF 0 > n - 1 THEN 0 ELSE (n - 1) - 0 + 1
  BY FS_Interval
<1> QED
  BY <1>1

(* What connecting does to the map: a key that was free, and one more of them. *)
LEMMA FreshKey ==
  ASSUME NEW r \in Routes, Contiguous(r), Size(r) < MaxClients
  PROVE  /\ Size(r) \in Key
         /\ Size(r) \notin DOMAIN instances[r]
         /\ DOMAIN instances[r] \cup {Size(r)} = 0..((Size(r) + 1) - 1)
         /\ Size(r) + 1 \in 0..MaxClients
<1>1. PICK n \in 0..MaxClients : DOMAIN instances[r] = 0..(n - 1)
  BY DEF Contiguous
<1>2. n \in Nat /\ Size(r) = n
  BY <1>1, SizeOfPrefix, WsAssumption DEF Size
<1> QED
  BY <1>1, <1>2, WsAssumption DEF Key

-----------------------------------------------------------------------------
(* TypeOK and MapInv together are inductive.                                 *)
LEMMA InvariantHolds == Spec => [](TypeOK /\ MapInv)
<1>1. Init => TypeOK /\ MapInv
  <2> SUFFICES ASSUME Init PROVE TypeOK /\ MapInv
    OBVIOUS
  <2>1. DOMAIN instances = Routes /\ \A r \in Routes : DOMAIN instances[r] = {}
    BY DEF Init
  <2>2. 0 \in Key /\ 0 \in 0..MaxClients /\ 0..(0 - 1) = {}
    BY WsAssumption DEF Key
  <2>3. \A r \in Routes : Contiguous(r)
    BY <2>1, <2>2 DEF Contiguous
  <2> QED
    BY <2>1, <2>2, <2>3 DEF Init, TypeOK, MapInv, OwnKey, NoTwice, Key
<1>2. TypeOK /\ MapInv /\ [Next]_vars => (TypeOK /\ MapInv)'
  <2> SUFFICES ASSUME TypeOK, MapInv, [Next]_vars PROVE (TypeOK /\ MapInv)'
    OBVIOUS
  <2>1. ASSUME NEW c \in Conns, InstanceOnClientConnect(c) PROVE (TypeOK /\ MapInv)'
    <3> DEFINE r == RouteOf[c]
               key == Size(r)
    <3>0. r \in Routes /\ \A d \in Conns : RouteOf[d] \in Routes
      BY WsAssumption
    <3>1. /\ key \in Key /\ key \notin DOMAIN instances[r]
          /\ DOMAIN instances[r] \cup {key} = 0..((key + 1) - 1)
          /\ key + 1 \in 0..MaxClients
      BY <2>1, <3>0, FreshKey DEF InstanceOnClientConnect, HasRoom, MapInv
    <3>2. /\ DOMAIN instances' = Routes
          /\ instances'[r] = Insert(instances[r], key, c)
          /\ \A q \in Routes \ {r} : instances'[q] = instances[q]
      BY <2>1, <3>0 DEF InstanceOnClientConnect, TypeOK
    <3>3. /\ DOMAIN instances'[r] = DOMAIN instances[r] \cup {key}
          /\ instances'[r][key] = c
          /\ \A k \in DOMAIN instances[r] : instances'[r][k] = instances[r][k]
      BY <3>1, <3>2 DEF Insert
    <3> HIDE DEF key
    <3>4. /\ clientKey'[c] = key /\ status'[c] = "open" /\ status[c] = "idle"
          /\ \A d \in Conns \ {c} : clientKey'[d] = clientKey[d] /\ status'[d] = status[d]
      BY <2>1 DEF InstanceOnClientConnect, TypeOK, key
    <3> HIDE DEF r
    <3>5. TypeOK'
      <4>1. \A q \in Routes : /\ DOMAIN instances'[q] \subseteq Key
                               /\ \A k \in DOMAIN instances'[q] : instances'[q][k] \in Conns
        <5> SUFFICES ASSUME NEW q \in Routes
                     PROVE  /\ DOMAIN instances'[q] \subseteq Key
                            /\ \A k \in DOMAIN instances'[q] : instances'[q][k] \in Conns
          OBVIOUS
        <5>1. CASE q = r
          BY <3>1, <3>3, <5>1 DEF TypeOK, Key
        <5>2. CASE q # r
          BY <3>2, <5>2 DEF TypeOK, Key
        <5> QED
          BY <5>1, <5>2
      <4>2. clientKey' \in [Conns -> Key]
        BY <2>1, <3>1 DEF InstanceOnClientConnect, TypeOK, Key, key, r
      <4> QED
        BY <2>1, <3>2, <4>1, <4>2 DEF InstanceOnClientConnect, TypeOK, Key
    <3>6. \A q \in Routes : Contiguous(q)'
      <4> SUFFICES ASSUME NEW q \in Routes PROVE Contiguous(q)'
        OBVIOUS
      <4>1. CASE q = r
        BY <3>1, <3>3, <4>1 DEF Contiguous
      <4>2. CASE q # r
        BY <3>2, <4>2 DEF Contiguous, MapInv
      <4> QED
        BY <4>1, <4>2
    <3>7. OwnKey'
      <4> SUFFICES ASSUME NEW d \in Conns, status'[d] \in {"open", "closed"}
                   PROVE  /\ clientKey'[d] \in DOMAIN instances'[RouteOf[d]]
                          /\ instances'[RouteOf[d]][clientKey'[d]] = d
        BY DEF OwnKey
      <4>1. CASE d = c
        BY <3>3, <3>4, <4>1 DEF r
      <4>2. CASE d # c
        <5>1. /\ clientKey'[d] \in DOMAIN instances[RouteOf[d]]
              /\ instances[RouteOf[d]][clientKey'[d]] = d
          BY <3>4, <4>2 DEF OwnKey, MapInv
        <5>2. CASE RouteOf[d] = r
          BY <3>3, <5>1, <5>2
        <5>3. CASE RouteOf[d] # r
          BY <3>0, <3>2, <5>1, <5>3
        <5> QED
          BY <5>2, <5>3
      <4> QED
        BY <4>1, <4>2
    <3>8. \A q \in Routes : \A k \in DOMAIN instances[q] : instances[q][k] # c
      BY <3>4 DEF NoTwice, MapInv
    <3>9. NoTwice'
      <4> SUFFICES ASSUME NEW q \in Routes, NEW k \in DOMAIN instances'[q]
                   PROVE  /\ clientKey'[instances'[q][k]] = k
                          /\ RouteOf[instances'[q][k]] = q
                          /\ status'[instances'[q][k]] \in {"open", "closed"}
        BY DEF NoTwice
      <4>1. CASE q = r /\ k = key
        BY <3>3, <3>4, <4>1 DEF r
      <4>2. CASE ~(q = r /\ k = key)
        <5>1. k \in DOMAIN instances[q] /\ instances'[q][k] = instances[q][k]
          BY <3>2, <3>3, <4>2
        <5>2. instances[q][k] \in Conns \ {c}
          BY <3>8, <5>1 DEF TypeOK
        <5> QED
          BY <3>4, <5>1, <5>2 DEF NoTwice, MapInv
      <4> QED
        BY <4>1, <4>2
    <3> QED
      BY <3>5, <3>6, <3>7, <3>9 DEF MapInv
  <2>2. ASSUME NEW c \in Conns, RejectClient(c) PROVE (TypeOK /\ MapInv)'
    <3>1. /\ UNCHANGED <<instances, clientKey, inbox, due, sent>>
          /\ status[c] = "idle" /\ status' = [status EXCEPT ![c] = "refused"]
      BY <2>2 DEF RejectClient
    <3> QED
      BY <3>1 DEF TypeOK, MapInv, Contiguous, OwnKey, NoTwice
  <2>3. ASSUME NEW c \in Conns, OnClose(c) PROVE (TypeOK /\ MapInv)'
    <3>1. /\ UNCHANGED <<instances, clientKey, inbox, due, sent>>
          /\ status[c] = "open" /\ status' = [status EXCEPT ![c] = "closed"]
      BY <2>3 DEF OnClose
    <3> QED
      BY <3>1 DEF TypeOK, MapInv, Contiguous, OwnKey, NoTwice
  <2>4. ASSUME NEW through, NEW to, SendThrough(through, to) PROVE (TypeOK /\ MapInv)'
    <3>1. UNCHANGED <<instances, clientKey, status>> /\ sent' \in Nat
      BY <2>4 DEF SendThrough, TypeOK
    <3>2. inbox' \in [Conns -> Seq(Nat)] /\ due' \in [Conns -> Seq(Nat)]
      BY <2>4, <3>1 DEF SendThrough, TypeOK
    <3> QED
      BY <3>1, <3>2 DEF TypeOK, MapInv, Contiguous, OwnKey, NoTwice
  <2>5. CASE UNCHANGED vars
    BY <2>5 DEF vars, TypeOK, MapInv, Contiguous, OwnKey, NoTwice
  <2> QED
    BY <2>1, <2>2, <2>3, <2>4, <2>5 DEF Next, OnCreate, NotifyAll, NotifyClient, Answer
<1> QED
  BY <1>1, <1>2, PTL DEF Spec

(* The map of instances never holds more than MAX_CLIENTS of them, each key  *)
(* below it, and every value keeps its type.                                 *)
THEOREM TypeCorrect == Spec => []TypeOK
  BY InvariantHolds, PTL

-----------------------------------------------------------------------------
(* Every open client has received exactly the broadcasts of its route and    *)
(* the replies of its own since it connected, whatever connected and         *)
(* disconnected before, on any route.                                        *)
THEOREM MessagesDelivered == Spec => []Delivered
<1> DEFINE D == \A c \in Conns : status[c] \in {"idle", "open"} => inbox[c] = due[c]
<1>1. Init => D
  BY DEF Init
<1>2. TypeOK /\ MapInv /\ D /\ [Next]_vars => D'
  <2> SUFFICES ASSUME TypeOK, MapInv, D, [Next]_vars PROVE D'
    OBVIOUS
  <2>1. ASSUME NEW c \in Conns, InstanceOnClientConnect(c) \/ RejectClient(c) \/ OnClose(c)
        PROVE  D'
    BY <2>1 DEF InstanceOnClientConnect, RejectClient, OnClose, TypeOK
  <2>2. ASSUME NEW through, NEW to, SendThrough(through, to),
               \A c \in Open : c \in through <=> c \in to
        PROVE  D'
    BY <2>2 DEF SendThrough, Open
  <2>3. CASE NotifyAll
    <3> DEFINE through == {instances["/ws"][k] : k \in DOMAIN instances["/ws"]}
               to == {c \in Conns : RouteOf[c] = "/ws"}
    <3>1. \A c \in Open : c \in through <=> c \in to
      BY DEF MapInv, OwnKey, NoTwice, Open, Routes
    <3>2. SendThrough(through, to)
      BY <2>3 DEF NotifyAll
    <3> QED
      BY <2>2, <3>1, <3>2
  <2>4. ASSUME NEW c \in Conns, NotifyClient(c) PROVE D'
    <3>1. ClientInstance(clientKey[c]) = {c}
      BY <2>4 DEF NotifyClient, ClientInstance, MapInv, OwnKey
    <3> QED
      BY <2>2, <2>4, <3>1 DEF NotifyClient
  <2>6. ASSUME NEW c \in Conns, Answer(c) PROVE D'
    BY <2>2, <2>6 DEF Answer
  <2>5. CASE UNCHANGED vars
    BY <2>5 DEF vars
  <2> QED
    BY <2>1, <2>3, <2>4, <2>5, <2>6 DEF Next, OnCreate
<1>3. D => Delivered
  BY DEF Delivered, Open
<1> QED
  BY <1>1, <1>2, <1>3, InvariantHolds, PTL DEF Spec
=============================================================================
