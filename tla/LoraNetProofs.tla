--------------------------- MODULE LoraNetProofs ---------------------------
(***************************************************************************)
(* Proofs about packets and events that are handed on, and about the radio *)
(* network, for any devices, alarms, losses, resets and foreign packets    *)
(* that raise no alarm.                                                    *)
(***************************************************************************)
EXTENDS LoraNet, Transit, SequenceTheorems, TLAPS

-----------------------------------------------------------------------------
(* Empty is hidden in the proofs; all that matters of it is this.            *)
LEMMA NotEmpty ==
  /\ "null" # Empty /\ "now" # Empty /\ "msgACK" # Empty
  /\ "Alarm" # Empty /\ "onAlert" # Empty /\ "test" # Empty /\ "sandbox" # Empty
  BY Zenon DEF Empty

(* What a device reads in a packet whose endpoint has two names.             *)
TwoNames(e, api, cmd) == e \in Seq({api, cmd}) /\ Len(e) = 2 /\ e[1] = api /\ e[2] = cmd

LEMMA ConcatOne ==
  ASSUME NEW api, NEW cmd
  PROVE  TwoNames(<<api>> \o <<cmd>>, api, cmd)
<1>1. /\ <<api>> \in Seq({api, cmd}) /\ <<cmd>> \in Seq({api, cmd})
      /\ Len(<<api>>) = 1 /\ Len(<<cmd>>) = 1 /\ <<api>>[1] = api /\ <<cmd>>[1] = cmd
  OBVIOUS
<1>2. ASSUME NEW s \in Seq({api, cmd}), NEW t \in Seq({api, cmd}),
             Len(s) = 1, Len(t) = 1, s[1] = api, t[1] = cmd
      PROVE  TwoNames(s \o t, api, cmd)
  <2>1. /\ s \o t \in Seq({api, cmd}) /\ Len(s \o t) = Len(s) + Len(t)
        /\ \A i \in 1..Len(s) + Len(t) :
             (s \o t)[i] = IF i <= Len(s) THEN s[i] ELSE t[i - Len(s)]
    BY ConcatProperties, Zenon
  <2> DEFINE u == s \o t
  <2> HIDE DEF u
  <2>2. Len(u) = 2 /\ u[1] = api /\ u[2] = cmd
    BY <1>2, <2>1 DEF u
  <2> QED
    BY <2>1, <2>2 DEF TwoNames, u
<1> QED
  BY <1>1, <1>2

LEMMA ValidTwo ==
  ASSUME NEW api, NEW cmd, api # Empty, cmd # Empty, NEW e, TwoNames(e, api, cmd), NEW t, t # Empty
  PROVE  Split(e) = e /\ Valid(t, e)
<1>0. Len(e) = 2 /\ e[1] # Empty /\ e[2] # Empty
  BY Zenon DEF TwoNames
<1>1. Split(e) = e
  BY <1>0 DEF Split
<1>2. e # EmptyText
  <2>1. Len(EmptyText) = 1
    BY DEF EmptyText
  <2>2. Len(e) # Len(EmptyText)
    BY <1>0, <2>1
  <2> QED
    BY <2>2, Zenon
<1>3. Len(e) >= 2
  BY <1>0
<1>4. Valid(t, e)
  BY <1>0, <1>1, <1>2, <1>3, Zenon DEF Valid
<1> QED
  BY <1>1, <1>4

LEMMA ReadsTwo ==
  ASSUME NEW api, NEW cmd, api # Empty, cmd # Empty, NEW w,
         "timestamp" \notin DOMAIN w, "endpoint" \in DOMAIN w, TwoNames(w["endpoint"], api, cmd)
  PROVE  /\ Received(w).api = <<api>> /\ Received(w).cmd = <<cmd>>
         /\ Received(w).ack = ("ack" \in DOMAIN w /\ w["ack"])
         /\ Parse(NewPacket("now"), w).ok /\ Received(w).data = Get(w, "data")
         /\ Received(w).sender = Get(w, "src") /\ Received(w).target = Get(w, "dst")
         /\ Received(w).timestamp = "null"
<1>0. DOMAIN Garbled = {"garbled"}
  BY DEF Garbled
<1>1. w # Garbled
  <2>1. "endpoint" \notin DOMAIN Garbled
    BY <1>0
  <2> QED
    BY <2>1, Zenon
<1> DEFINE e == w["endpoint"]
<1>2. Get(w, "timestamp") = "null" /\ GetText(w, "endpoint") = e
  BY DEF Get, GetText
<1>3. Valid("null", e) /\ Split(e) = e /\ e[1] = api /\ e[2] = cmd
  BY ValidTwo, NotEmpty DEF TwoNames
<1> DEFINE p == NewPacket("now")
           fields == [p EXCEPT !.timestamp = "null", !.sender = Get(w, "src"),
                               !.target = Get(w, "dst"), !.data = Get(w, "data"),
                               !.ack = "ack" \in DOMAIN w /\ w["ack"]]
           packet == [fields EXCEPT !.api = <<e[1]>>, !.cmd = <<e[2]>>]
<1>4. Parse(p, w).ok /\ Parse(p, w).packet = packet
  <2> HIDE DEF p, e
  <2> QED
    BY <1>1, <1>2, <1>3 DEF Parse
<1>5. /\ packet.api = <<e[1]>> /\ packet.cmd = <<e[2]>>
      /\ packet.ack = ("ack" \in DOMAIN w /\ w["ack"])
      /\ packet.data = Get(w, "data") /\ packet.sender = Get(w, "src") /\ packet.target = Get(w, "dst")
      /\ packet.timestamp = "null"
  BY DEF NewPacket
<1> HIDE DEF packet, e
<1> QED
  BY <1>3, <1>4, <1>5 DEF Received

(* An alarm is read as what it is by whoever receives it.                    *)
LEMMA AlarmRead ==
  ASSUME NEW id \in Ids, NEW d
  PROVE  /\ IsCall(Serialize(Alarm(id), d), "Alarm", "onAlert")
         /\ Get(Serialize(Alarm(id), d), "id") = id
<1> DEFINE w == Serialize(Alarm(id), d)
<1>1. /\ Alarm(id).timestamp = id /\ Alarm(id).ack = TRUE /\ Alarm(id).target = Empty
      /\ Alarm(id).api = <<"Alarm">> /\ Alarm(id).cmd = <<"onAlert">>
  BY DEF Alarm, NewPacket
<1>2. TwoNames(Endpoint(Alarm(id)), "Alarm", "onAlert")
  BY <1>1, ConcatOne DEF Endpoint
<1>3. id # Empty
  BY NetAssumption
<1>4. DOMAIN w = {"endpoint", "data", "id", "ack"}
  BY <1>1, <1>3 DEF Serialize
<1>5. w["endpoint"] = Endpoint(Alarm(id)) /\ w["id"] = id
  BY <1>1, <1>3 DEF Serialize
<1>6. "timestamp" \notin DOMAIN w /\ "endpoint" \in DOMAIN w /\ "id" \in DOMAIN w
  BY <1>4
<1>7. "Alarm" # Empty /\ "onAlert" # Empty /\ TwoNames(w["endpoint"], "Alarm", "onAlert")
  BY <1>2, <1>5, NotEmpty
<1> HIDE DEF w
<1>8. Received(w).api = <<"Alarm">> /\ Received(w).cmd = <<"onAlert">>
  BY <1>6, <1>7, ReadsTwo, Zenon
<1>9. IsCall(w, "Alarm", "onAlert") /\ Get(w, "id") = id
  BY <1>5, <1>6, <1>8 DEF IsCall, Get
<1> QED
  BY <1>9 DEF w

LEMMA SandboxRead ==
  ASSUME NEW d
  PROVE  Received(Serialize(Sandbox, d)).cmd = <<"sandbox">>
<1> DEFINE w == Serialize(Sandbox, d)
<1>1. /\ Sandbox.timestamp = "now" /\ Sandbox.ack = TRUE /\ Sandbox.target = Empty
      /\ Sandbox.api = <<"test">> /\ Sandbox.cmd = <<"sandbox">>
  BY DEF Sandbox, NewPacket
<1>2. TwoNames(Endpoint(Sandbox), "test", "sandbox")
  BY <1>1, ConcatOne DEF Endpoint
<1>3. DOMAIN w = {"endpoint", "data", "id", "ack"} /\ w["endpoint"] = Endpoint(Sandbox)
  BY <1>1, NotEmpty DEF Serialize
<1>4. "timestamp" \notin DOMAIN w /\ "endpoint" \in DOMAIN w
  BY <1>3
<1>5. "test" # Empty /\ "sandbox" # Empty /\ TwoNames(w["endpoint"], "test", "sandbox")
  BY <1>2, <1>3, NotEmpty
<1> HIDE DEF w
<1>6. Received(w).cmd = <<"sandbox">>
  BY <1>4, <1>5, ReadsTwo, Zenon
<1> QED
  BY <1>6 DEF w

(* Whatever is received, its command is one name.                            *)
LEMMA CommandIsOneName ==
  ASSUME NEW w
  PROVE  \E x : Received(w).cmd = <<x>>
<1> DEFINE p == NewPacket("now")
           fields == [p EXCEPT !.timestamp = Get(w, "timestamp"), !.sender = Get(w, "src"),
                               !.target = Get(w, "dst"), !.data = Get(w, "data"),
                               !.ack = "ack" \in DOMAIN w /\ w["ack"]]
           names == Split(GetText(w, "endpoint"))
           packet == [fields EXCEPT !.api = <<names[1]>>, !.cmd = <<names[2]>>]
<1>1. p.cmd = <<Empty>> /\ fields.cmd = <<Empty>> /\ packet.cmd = <<names[2]>>
  BY DEF NewPacket, EmptyText
<1>2. Received(w) = p \/ Received(w) = fields \/ Received(w) = packet
  <2> HIDE DEF p
  <2>1. Parse(p, w).packet \in {p, fields, packet}
    BY DEF Parse
  <2> QED
    BY <2>1 DEF Received, p
<1> HIDE DEF p, fields, names, packet
<1> QED
  BY <1>1, <1>2, Zenon

(* A packet without a second name is not routed anywhere.                    *)
LEMMA ReadsOne ==
  ASSUME NEW api, NEW w,
         "timestamp" \notin DOMAIN w, "endpoint" \in DOMAIN w, TwoNames(w["endpoint"], api, Empty)
  PROVE  /\ Received(w).api = EmptyText /\ Received(w).cmd = EmptyText
         /\ Received(w).ack = ("ack" \in DOMAIN w /\ w["ack"])
<1> DEFINE e == w["endpoint"]
           p == NewPacket("now")
           fields == [p EXCEPT !.timestamp = Get(w, "timestamp"), !.sender = Get(w, "src"),
                               !.target = Get(w, "dst"), !.data = Get(w, "data"),
                               !.ack = "ack" \in DOMAIN w /\ w["ack"]]
<1>1. GetText(w, "endpoint") = e
  BY DEF GetText
<1>2. ~Valid(Get(w, "timestamp"), e)
  <2>1. Split(e) = SubSeq(e, 1, Len(e) - 1) /\ Len(e) = 2 /\ e \in Seq({api, Empty})
    BY DEF TwoNames, Split
  <2>2. Len(Split(e)) = 1
    BY <2>1
  <2> QED
    BY <2>2 DEF Valid
<1>3. w # Garbled
  <2>1. "endpoint" \notin DOMAIN Garbled
    BY DEF Garbled
  <2> QED
    BY <2>1, Zenon
<1>4. Parse(p, w).packet = fields
  <2> HIDE DEF p, e
  <2> QED
    BY <1>1, <1>2, <1>3 DEF Parse
<1>5. fields.api = EmptyText /\ fields.cmd = EmptyText
      /\ fields.ack = ("ack" \in DOMAIN w /\ w["ack"])
  BY DEF NewPacket
<1> HIDE DEF fields
<1> QED
  BY <1>4, <1>5 DEF Received

(* An ACK names the command it acknowledges, calls no module and asks for no *)
(* ACK, whatever it acknowledges.                                            *)
LEMMA AckRead ==
  ASSUME NEW w, NEW d
  PROVE  /\ Received(AckOf(w, d)).cmd = Received(w).cmd
         /\ Received(AckOf(w, d)).api # <<"Alarm">>
         /\ Received(AckOf(w, d)).ack = FALSE
<1> DEFINE p == Received(w)
           q == [p EXCEPT !.target = p.sender, !.api = <<"msgACK">>, !.data = Empty, !.ack = FALSE]
           a == AckOf(w, d)
<1>1. PICK x : p.cmd = <<x>>
  BY CommandIsOneName
<1>2. a = Serialize(q, d)
  BY DEF AckOf, Reply, Received
<1>3. q.api = <<"msgACK">> /\ q.cmd = <<x>> /\ q.ack = FALSE
  BY <1>1 DEF Received, Parse, NewPacket
<1>4. TwoNames(Endpoint(q), "msgACK", x)
  <2> HIDE DEF q
  <2> QED
    BY <1>3, ConcatOne DEF Endpoint
<1>5. /\ "timestamp" \notin DOMAIN a /\ "endpoint" \in DOMAIN a /\ "ack" \notin DOMAIN a
      /\ a["endpoint"] = Endpoint(q)
  <2> HIDE DEF q
  <2> QED
    BY <1>2, <1>3 DEF Serialize
<1> HIDE DEF a, p, q
<1>6. CASE x = Empty
  <2>1. Received(a).api = EmptyText /\ Received(a).cmd = EmptyText /\ Received(a).ack = FALSE
    BY <1>4, <1>5, <1>6, ReadsOne, Zenon
  <2>2. EmptyText # <<"Alarm">> /\ EmptyText = <<Empty>>
    BY NotEmpty DEF EmptyText
  <2> QED
    BY <1>1, <1>6, <2>1, <2>2 DEF a, p
<1>7. CASE x # Empty
  <2>1. Received(a).api = <<"msgACK">> /\ Received(a).cmd = <<x>> /\ Received(a).ack = FALSE
    BY <1>4, <1>5, <1>7, ReadsTwo, NotEmpty, Zenon
  <2>2. <<"msgACK">> # <<"Alarm">>
    OBVIOUS
  <2> QED
    BY <1>1, <2>1, <2>2 DEF a, p
<1> QED
  BY <1>6, <1>7

-----------------------------------------------------------------------------
(* What crosses a link. *)
Name(text) == Plain(text) => \E x : x # Empty /\ text = <<x>>
Sendable(p) == Name(p.api) /\ Name(p.cmd) /\ p.ack \in BOOLEAN

LEMMA NamesOfSeqs ==
  ASSUME NEW S, NEW text \in Seq(S)
  PROVE  Name(text)
<1> SUFFICES ASSUME Len(text) = 1, text # <<Empty>> PROVE \E x : x # Empty /\ text = <<x>>
  BY DEF Name, Plain, EmptyText
<1>1. text = <<text[1]>>
  OBVIOUS
<1>2. text[1] # Empty
  BY <1>1
<1> QED
  BY <1>1, <1>2

(* What a packet with two plain names is on the wire. *)
WrittenAs(w, p, d, api, cmd) ==
  /\ "timestamp" \notin DOMAIN w /\ "endpoint" \in DOMAIN w
  /\ TwoNames(w["endpoint"], api, cmd)
  /\ Get(w, "data") = p.data
  /\ ("ack" \in DOMAIN w /\ w["ack"]) = (p.ack = TRUE)
  /\ Get(w, "dst") = IF p.target # Empty THEN p.target ELSE "null"
  /\ Get(w, "src") = IF p.target # Empty THEN d ELSE "null"

LEMMA Written ==
  ASSUME NEW p, NEW d, NEW api, NEW cmd, p.api = <<api>>, p.cmd = <<cmd>>
  PROVE  WrittenAs(Serialize(p, d), p, d, api, cmd)
<1> DEFINE w == Serialize(p, d)
<1>1. TwoNames(Endpoint(p), api, cmd)
  BY ConcatOne DEF Endpoint
<1>2. /\ "timestamp" \notin DOMAIN w /\ "endpoint" \in DOMAIN w /\ "data" \in DOMAIN w
      /\ w["endpoint"] = Endpoint(p) /\ w["data"] = p.data
  BY DEF Serialize
<1>3. ("ack" \in DOMAIN w <=> p.ack) /\ ("ack" \in DOMAIN w => w["ack"] = TRUE)
  BY DEF Serialize
<1>4. /\ p.target # Empty => /\ "dst" \in DOMAIN w /\ w["dst"] = p.target
                             /\ "src" \in DOMAIN w /\ w["src"] = d
      /\ p.target = Empty => "dst" \notin DOMAIN w /\ "src" \notin DOMAIN w
  BY DEF Serialize
<1> HIDE DEF w
<1>5. Get(w, "data") = p.data
  BY <1>2 DEF Get
<1>6. Get(w, "dst") = IF p.target # Empty THEN p.target ELSE "null"
  <2>1. CASE p.target = Empty
    BY <1>4, <2>1 DEF Get
  <2>2. CASE p.target # Empty
    BY <1>4, <2>2 DEF Get
  <2> QED
    BY <2>1, <2>2
<1>7. Get(w, "src") = IF p.target # Empty THEN d ELSE "null"
  <2>1. CASE p.target = Empty
    BY <1>4, <2>1 DEF Get
  <2>2. CASE p.target # Empty
    BY <1>4, <2>2 DEF Get
  <2> QED
    BY <2>1, <2>2
<1> QED
  BY <1>1, <1>2, <1>3, <1>5, <1>6, <1>7 DEF w, WrittenAs

LEMMA SendableCrosses ==
  ASSUME NEW p, Sendable(p), NEW d
  PROVE  Crosses(p, d)
<1> SUFFICES ASSUME Plain(p.api), Plain(p.cmd) PROVE Crosses(p, d)
  BY DEF Crosses
<1>1. PICK api, cmd : api # Empty /\ cmd # Empty /\ p.api = <<api>> /\ p.cmd = <<cmd>>
  BY DEF Sendable, Name
<1> DEFINE w == Serialize(p, d)
<1>2. WrittenAs(w, p, d, api, cmd)
  BY <1>1, Written
<1> HIDE DEF w
<1>3. /\ Received(w).api = <<api>> /\ Received(w).cmd = <<cmd>>
      /\ Received(w).ack = ("ack" \in DOMAIN w /\ w["ack"])
      /\ Parse(NewPacket("now"), w).ok /\ Received(w).data = Get(w, "data")
      /\ Received(w).sender = Get(w, "src") /\ Received(w).target = Get(w, "dst")
      /\ Received(w).timestamp = "null"
  <2>1. "timestamp" \notin DOMAIN w /\ "endpoint" \in DOMAIN w /\ TwoNames(w["endpoint"], api, cmd)
    BY <1>2 DEF WrittenAs
  <2> QED
    BY <1>1, <2>1, ReadsTwo, Zenon
<1>4. p.ack \in BOOLEAN
  BY DEF Sendable
<1>5. Received(w).ack = p.ack
  BY <1>2, <1>3, <1>4 DEF WrittenAs
<1>6. /\ Received(w).data = p.data /\ Received(w).timestamp = "null"
      /\ Received(w).target = IF p.target # Empty THEN p.target ELSE "null"
      /\ Received(w).sender = IF p.target # Empty THEN d ELSE "null"
  BY <1>2, <1>3 DEF WrittenAs
<1> QED
  BY <1>1, <1>3, <1>5, <1>6 DEF Crosses, Received, w

LEMMA SendableAckComesBack ==
  ASSUME NEW p, Sendable(p), NEW from, NEW by, from # Empty
  PROVE  AckComesBack(p, from, by)
<1> SUFFICES ASSUME Plain(p.api), Plain(p.cmd), p.target # Empty PROVE AckComesBack(p, from, by)
  BY DEF AckComesBack
<1> DEFINE w == Serialize(p, from)
           q == Reply(Received(w))
           a == Serialize(q, by)
<1>1. Crosses(p, from)
  BY SendableCrosses
<1>2. Received(w).cmd = p.cmd /\ Received(w).sender = from
  BY <1>1 DEF Crosses, Received
<1>3. PICK cmd : cmd # Empty /\ p.cmd = <<cmd>>
  BY DEF Sendable, Name
<1>4. q.api = <<"msgACK">> /\ q.cmd = <<cmd>> /\ q.target = from /\ q.ack = FALSE
  BY <1>2, <1>3 DEF Reply, Received, Parse, NewPacket
<1> HIDE DEF w, q
<1>5. WrittenAs(a, q, by, "msgACK", cmd)
  BY <1>4, Written
<1> HIDE DEF a
<1>6. /\ Received(a).api = <<"msgACK">> /\ Received(a).cmd = <<cmd>>
      /\ Received(a).ack = ("ack" \in DOMAIN a /\ a["ack"])
      /\ Parse(NewPacket("now"), a).ok
      /\ Received(a).sender = Get(a, "src") /\ Received(a).target = Get(a, "dst")
  <2>1. "timestamp" \notin DOMAIN a /\ "endpoint" \in DOMAIN a /\ TwoNames(a["endpoint"], "msgACK", cmd)
    BY <1>5 DEF WrittenAs
  <2>2. "msgACK" # Empty /\ cmd # Empty
    BY <1>3, NotEmpty
  <2> QED
    BY <2>1, <2>2, ReadsTwo, Zenon
<1>7. ~Received(a).ack /\ Received(a).target = from /\ Received(a).sender = by
  BY <1>4, <1>5, <1>6 DEF WrittenAs
<1>8. AckOf(Serialize(p, from), by) = a
  BY DEF AckOf, Received, a, q, w
<1> QED
  BY <1>3, <1>6, <1>7, <1>8 DEF AckComesBack, Received

(* What was read can be sent. *)
LEMMA ReceivedIsSendable ==
  ASSUME NEW w
  PROVE  Sendable(Received(w))
<1> DEFINE p == NewPacket("now")
           fields == [p EXCEPT !.timestamp = Get(w, "timestamp"), !.sender = Get(w, "src"),
                               !.target = Get(w, "dst"), !.data = Get(w, "data"),
                               !.ack = "ack" \in DOMAIN w /\ w["ack"]]
           names == Split(GetText(w, "endpoint"))
           read == [fields EXCEPT !.api = <<names[1]>>, !.cmd = <<names[2]>>]
<1>1. /\ p.api = EmptyText /\ p.cmd = EmptyText /\ p.ack \in BOOLEAN
      /\ fields.api = EmptyText /\ fields.cmd = EmptyText /\ fields.ack \in BOOLEAN
      /\ read.api = <<names[1]>> /\ read.cmd = <<names[2]>> /\ read.ack \in BOOLEAN
  BY DEF NewPacket
<1>2. Received(w) = p \/ Received(w) = fields \/ Received(w) = read
  <2> HIDE DEF p
  <2>1. Parse(p, w).packet \in {p, fields, read}
    BY DEF Parse
  <2> QED
    BY <2>1 DEF Received, p
<1> HIDE DEF p, fields, names, read
<1>3. \A x : Name(<<x>>) /\ Name(EmptyText)
  BY DEF Name, Plain, EmptyText
<1> QED
  BY <1>1, <1>2, <1>3 DEF Sendable

HopInv == Sendable(carried) /\ EventKept

LEMMA HopInvHolds == HopSpec => []HopInv
<1>1. HopInit => HopInv
  <2> SUFFICES ASSUME HopInit PROVE HopInv
    OBVIOUS
  <2>1. Sendable(carried)
    BY TransitAssumption, NamesOfSeqs DEF HopInit, Sendable
  <2> QED
    BY <2>1 DEF HopInit, HopInv, EventKept
<1>2. HopInv /\ [HopNext]_hopVars => HopInv'
  <2> SUFFICES ASSUME HopInv, [HopNext]_hopVars PROVE HopInv'
    OBVIOUS
  <2>1. ASSUME NEW d \in Relays, HopPacket(d) PROVE HopInv'
    <3>1. carried' = Received(Serialize(carried, d)) /\ UNCHANGED <<told, reported>>
      BY <2>1 DEF HopPacket, Received
    <3>2. Sendable(carried')
      BY <3>1, ReceivedIsSendable
    <3> QED
      BY <3>1, <3>2 DEF HopInv, EventKept
  <2>2. ASSUME NEW d \in Relays, HopEvent(d) PROVE HopInv'
    <3> DEFINE f == ForeignEvent(told, d)
    <3>1. carried' = carried /\ reported' = reported /\ told' = FromObjContent(ToObjContent(f), "now")
      BY <2>2 DEF HopEvent
    <3>2. f.type = told.type /\ f.content = told.content
      BY DEF ForeignEvent
    <3>3. /\ told'.type = f.type /\ told'.content = f.content
          /\ told'.source = "null" /\ told'.time = "now"
      BY <3>1 DEF FromObjContent, ToObjContent, Get
    <3>4. told.type = reported.type /\ told.content = reported.content
      BY DEF HopInv, EventKept
    <3> QED
      BY <3>1, <3>2, <3>3, <3>4 DEF HopInv, EventKept
  <2>3. CASE UNCHANGED hopVars
    BY <2>3 DEF HopInv, hopVars, EventKept
  <2> QED
    BY <2>1, <2>2, <2>3 DEF HopNext
<1> QED
  BY <1>1, <1>2, PTL DEF HopSpec

(* CommonObj.cpp:19-76: for any names, data, target and sender, and at every *)
(* hop: a packet whose two names are plain is accepted with its endpoint,    *)
(* data, wish for an ACK and address, and loses its timestamp.               *)
THEOREM PacketsCross == HopSpec => []PacketCrosses
<1>1. HopInv => PacketCrosses
  BY SendableCrosses DEF HopInv, PacketCrosses
<1> QED
  BY <1>1, HopInvHolds, PTL

(* LinkInterface.cpp:70-81: the acknowledgement of an addressed packet finds *)
(* its way back, for any devices that have a name.                           *)
THEOREM AcksComeBack == HopSpec => []PacketAckComesBack
<1>1. HopInv => PacketAckComesBack
  <2>1. \A d \in Relays : d # Empty
    BY TransitAssumption
  <2> QED
    BY <2>1, SendableAckComesBack DEF HopInv, PacketAckComesBack
<1> QED
  BY <1>1, HopInvHolds, PTL

(* CommonObj.cpp:98-125: after any number of hops an event still has the     *)
(* type that routes it and its content, and has lost its source and time.    *)
THEOREM EventsAreKept == HopSpec => []EventKept
<1>1. HopInv => EventKept
  BY DEF HopInv, EventKept
<1> QED
  BY <1>1, HopInvHolds, PTL

-----------------------------------------------------------------------------
(* The packets there are, by what they ask for.                              *)
IsAlarm(w) == IsCall(w, "Alarm", "onAlert")
IsAlarmAck(w) == IsCall(w, "msgACK", "onAlert")

LEMMA NoAlarm ==
  ASSUME NEW w, Received(w).cmd # <<"onAlert">>
  PROVE  ~IsAlarm(w) /\ ~IsAlarmAck(w)
  BY DEF IsAlarm, IsAlarmAck, IsCall

LEMMA AlarmWire ==
  ASSUME NEW id \in Ids, NEW d \in Devices
  PROVE  /\ Serialize(Alarm(id), d) \in Wire
         /\ IsAlarm(Serialize(Alarm(id), d)) /\ ~IsAlarmAck(Serialize(Alarm(id), d))
         /\ Get(Serialize(Alarm(id), d), "id") = id
<1>1. <<"Alarm">> # <<"msgACK">>
  OBVIOUS
<1> QED
  BY <1>1, AlarmRead DEF Wire, Requests, IsAlarm, IsAlarmAck, IsCall

LEMMA SandboxWire ==
  ASSUME NEW d \in Devices
  PROVE  /\ Serialize(Sandbox, d) \in Wire
         /\ ~IsAlarm(Serialize(Sandbox, d)) /\ ~IsAlarmAck(Serialize(Sandbox, d))
<1>1. <<"sandbox">> # <<"onAlert">>
  OBVIOUS
<1>2. Received(Serialize(Sandbox, d)).cmd # <<"onAlert">>
  BY <1>1, SandboxRead
<1> QED
  BY <1>2, NoAlarm DEF Wire, Requests

LEMMA ForeignWire ==
  ASSUME NEW w \in Foreign
  PROVE  w \in Wire /\ ~IsAlarm(w) /\ ~IsAlarmAck(w)
  BY ForeignAssumption, NoAlarm DEF Wire, Requests

LEMMA WireKinds ==
  ASSUME NEW w \in Wire
  PROVE  /\ IsAlarm(w) => Get(w, "id") \in Ids
         /\ Received(w).ack => w \in Requests
         /\ Received(w).ack /\ Received(w).cmd = <<"onAlert">> => IsAlarm(w)
<1>1. CASE \E id \in Ids, d \in Devices : w = Serialize(Alarm(id), d)
  BY <1>1, AlarmWire DEF Requests
<1>2. CASE \E d \in Devices : w = Serialize(Sandbox, d)
  <2>1. <<"sandbox">> # <<"onAlert">>
    OBVIOUS
  <2> QED
    BY <1>2, <2>1, SandboxWire, SandboxRead DEF Requests
<1>3. CASE w \in Foreign
  BY <1>3, ForeignWire, ForeignAssumption DEF Requests
<1>4. CASE \E v \in Requests, d \in Devices : w = AckOf(v, d)
  BY <1>4, AckRead DEF IsAlarm, IsCall
<1> QED
  BY <1>1, <1>2, <1>3, <1>4 DEF Wire, Requests

(* What a device transmits in answer to a packet is at most its ACK.         *)
LEMMA AcksAreWire ==
  ASSUME NEW w \in Wire, NEW d \in Devices
  PROVE  \/ Acks(w, d) = << >>
         \/ \E a \in Wire : /\ Acks(w, d) = <<a>> /\ ~IsAlarm(a)
                            /\ IsAlarmAck(a) => IsAlarm(w)
<1>1. CASE ~Received(w).ack
  BY <1>1 DEF Acks
<1>2. CASE Received(w).ack
  <2>1. AckOf(w, d) \in Wire
    BY <1>2, WireKinds DEF Wire
  <2>2. ~IsAlarm(AckOf(w, d))
    BY AckRead DEF IsAlarm, IsCall
  <2>3. IsAlarmAck(AckOf(w, d)) => IsAlarm(w)
    BY <1>2, WireKinds, AckRead DEF IsAlarmAck, IsCall
  <2> QED
    BY <1>2, <2>1, <2>2, <2>3 DEF Acks
<1> QED
  BY <1>1, <1>2

-----------------------------------------------------------------------------
(* A slot holds one packet at most. *)
Slots == {<< >>} \cup {<<w>> : w \in Wire}

TypeInv ==
  /\ rx \in [Devices -> Slots] /\ handling \in [Devices -> Slots] /\ outbox \in [Devices -> Slots]
  /\ heard \in [Devices -> Seq(Ids)]
  /\ receivedAck \in [Devices -> BOOLEAN]
  /\ injected \in [Devices -> Nat]
  /\ \A id \in DOMAIN alerts : id \in Ids /\ alerts[id] \in Devices
  /\ foreign \in 0..MaxForeign

LEMMA SlotProperties ==
  ASSUME NEW s \in Slots
  PROVE  /\ s \in Seq(Wire) /\ Len(s) <= 1
         /\ s # << >> => s[1] \in Wire /\ s = <<s[1]>> /\ Head(s) = s[1] /\ Tail(s) = << >>
<1>1. CASE s = << >>
  BY <1>1
<1>2. ASSUME NEW w \in Wire, s = <<w>>
      PROVE  s \in Seq(Wire) /\ Len(s) <= 1 /\ s[1] = w /\ Head(s) = w /\ Tail(s) = << >>
  BY <1>2
<1> QED
  BY <1>1, <1>2 DEF Slots

(* The steps, with what they mean for the alarms.                            *)
LEMMA DispatchShape ==
  ASSUME TypeInv, NEW d \in Devices, DispatchApiCall(d)
  PROVE  /\ outbox[d] = << >> /\ handling[d] # << >>
         /\ handling' = [handling EXCEPT ![d] = << >>]
         /\ UNCHANGED <<rx, alerts, foreign>>
         /\ \/ IsAlarm(handling[d][1])
               /\ heard' = [heard EXCEPT ![d] = Append(@, Get(handling[d][1], "id"))]
            \/ ~IsAlarm(handling[d][1]) /\ heard' = heard
         /\ outbox' = outbox \/ outbox' = [outbox EXCEPT ![d] = <<Serialize(Sandbox, d)>>]
         /\ receivedAck' \in [Devices -> BOOLEAN] /\ injected' \in [Devices -> Nat]
<1>1. /\ outbox[d] = << >> /\ handling[d] # << >>
      /\ handling' = [handling EXCEPT ![d] = << >>] /\ UNCHANGED <<rx, alerts, foreign>>
  BY DEF DispatchApiCall, AlarmOnApiCall, TestOnApiCall, NotifierOnApiCall, LoraOnApiCall,
     Unregistered, Call
<1>2. outbox' = outbox \/ outbox' = [outbox EXCEPT ![d] = <<Serialize(Sandbox, d)>>]
  BY DEF DispatchApiCall, AlarmOnApiCall, TestOnApiCall, NotifierOnApiCall, LoraOnApiCall,
     Unregistered
<1>3. receivedAck' \in [Devices -> BOOLEAN] /\ injected' \in [Devices -> Nat]
  <2>1. receivedAck' = receivedAck \/ receivedAck' = [receivedAck EXCEPT ![d] = TRUE]
    BY DEF DispatchApiCall, AlarmOnApiCall, TestOnApiCall, NotifierOnApiCall, LoraOnApiCall,
       Unregistered
  <2>2. injected' = injected \/ injected' = [injected EXCEPT ![d] = @ + 1]
    BY DEF DispatchApiCall, AlarmOnApiCall, TestOnApiCall, NotifierOnApiCall, LoraOnApiCall,
       Unregistered
  <2>3. receivedAck' \in [Devices -> BOOLEAN]
    BY <2>1 DEF TypeInv
  <2>4. injected' \in [Devices -> Nat]
    <3>1. injected \in [Devices -> Nat] /\ injected[d] + 1 \in Nat
      BY DEF TypeInv
    <3> QED
      BY <2>2, <3>1
  <2> QED
    BY <2>3, <2>4
<1>4. CASE AlarmOnApiCall(d)
  <2>1. IsAlarm(handling[d][1]) <=> Handled(d).cmd = <<"onAlert">>
    BY <1>4 DEF AlarmOnApiCall, Call, IsAlarm, IsCall, Handled
  <2> QED
    BY <1>1, <1>2, <1>3, <1>4, <2>1 DEF AlarmOnApiCall
<1>5. CASE TestOnApiCall(d) \/ NotifierOnApiCall(d) \/ LoraOnApiCall(d) \/ Unregistered(d)
  <2>1. heard' = heard
    BY <1>5 DEF TestOnApiCall, NotifierOnApiCall, LoraOnApiCall, Unregistered
  <2>2. /\ <<"test">> # <<"Alarm">> /\ <<"notifier">> # <<"Alarm">> /\ <<"Lora">> # <<"Alarm">>
    OBVIOUS
  <2>3. Handled(d).api # <<"Alarm">>
    BY <1>5, <2>2, Zenon DEF TestOnApiCall, NotifierOnApiCall, LoraOnApiCall, Unregistered, Call
  <2> QED
    BY <1>1, <1>2, <1>3, <2>1, <2>3 DEF IsAlarm, IsCall, Handled
<1> QED
  BY <1>4, <1>5 DEF DispatchApiCall

LEMMA TransmitShape ==
  ASSUME TypeInv, NEW d \in Devices, Transmit(d)
  PROVE  /\ outbox[d] # << >>
         /\ \E reached \in SUBSET (Devices \ {d}) :
              rx' = [e \in Devices |-> IF e \in reached THEN outbox[d] ELSE rx[e]]
         /\ outbox' = [outbox EXCEPT ![d] = << >>]
         /\ UNCHANGED <<handling, receivedAck, injected, alerts, heard, foreign>>
<1>1. PICK reached \in SUBSET Listening(d) : TransmitTo(d, reached)
  BY DEF Transmit
<1>2. outbox[d] # << >>
  BY <1>1 DEF TransmitTo
<1>3. outbox[d] = <<Head(outbox[d])>> /\ Tail(outbox[d]) = << >>
  BY <1>2, SlotProperties DEF TypeInv
<1>4. outbox' = [outbox EXCEPT ![d] = << >>]
  BY <1>1, <1>3 DEF TransmitTo
<1>5. rx' = [e \in Devices |-> IF e \in reached THEN outbox[d] ELSE rx[e]]
  BY <1>1, <1>3, Zenon DEF TransmitTo
<1>6. reached \in SUBSET (Devices \ {d})
  BY DEF Listening
<1> QED
  BY <1>1, <1>2, <1>4, <1>5, <1>6 DEF TransmitTo

LEMMA ListenShape ==
  ASSUME TypeInv, NEW d \in Devices, Listen(d)
  PROVE  /\ Idle(d) /\ rx[d] # << >>
         /\ rx' = [rx EXCEPT ![d] = << >>]
         /\ handling' = [handling EXCEPT ![d] = rx[d]]
         /\ \E answer \in Slots :
              /\ outbox' = [outbox EXCEPT ![d] = answer]
              /\ answer # << >> => /\ ~IsAlarm(answer[1])
                                   /\ IsAlarmAck(answer[1]) => IsAlarm(rx[d][1])
         /\ UNCHANGED <<receivedAck, injected, alerts, heard, foreign>>
<1>1. rx[d][1] \in Wire
  BY SlotProperties DEF TypeInv, Listen
<1> DEFINE answer == Acks(rx[d][1], d)
<1>2. answer \in Slots /\ (answer # << >> => /\ ~IsAlarm(answer[1])
                                             /\ IsAlarmAck(answer[1]) => IsAlarm(rx[d][1]))
  <2>1. CASE answer = << >>
    BY <2>1 DEF Slots
  <2>2. ASSUME NEW a \in Wire, answer = <<a>>, ~IsAlarm(a), IsAlarmAck(a) => IsAlarm(rx[d][1])
        PROVE  <1>2!1 /\ <1>2!2
    <3>1. answer[1] = a
      BY <2>2
    <3> QED
      BY <2>2, <3>1 DEF Slots
  <2> HIDE DEF answer
  <2> QED
    BY <1>1, <2>1, <2>2, AcksAreWire DEF answer
<1>3. outbox' = [outbox EXCEPT ![d] = answer]
  BY DEF Listen
<1> HIDE DEF answer
<1> QED
  BY <1>2, <1>3 DEF Listen

-----------------------------------------------------------------------------
(* Types.                                                                    *)
LEMMA InitTypeInv == Init => TypeInv
<1> SUFFICES ASSUME Init PROVE TypeInv
  OBVIOUS
<1>1. << >> \in Slots /\ << >> \in Seq(Ids)
  BY DEF Slots
<1>2. DOMAIN alerts = {}
  BY DEF Init
<1> QED
  BY <1>1, <1>2, NetAssumption DEF Init, TypeInv

RebootNext == Next \/ \E d \in Devices : Reboot(d)

LEMMA NextTypeInv == TypeInv /\ [RebootNext]_vars => TypeInv'
<1> SUFFICES ASSUME TypeInv, [RebootNext]_vars PROVE TypeInv'
  OBVIOUS
<1>0. << >> \in Slots /\ \A w \in Wire : <<w>> \in Slots
  BY DEF Slots
<1>1. ASSUME NEW d \in Devices, OnMotionDetected(d)
      PROVE  TypeInv'
  <2>1. PICK id \in Ids \ DOMAIN alerts :
          /\ alerts' = [i \in DOMAIN alerts \cup {id} |-> IF i = id THEN d ELSE alerts[i]]
          /\ outbox' = [outbox EXCEPT ![d] = <<Serialize(Alarm(id), d)>>]
    BY <1>1 DEF OnMotionDetected
  <2>2. outbox' \in [Devices -> Slots]
    BY <1>0, <2>1, AlarmWire DEF TypeInv
  <2>3. \A i \in DOMAIN alerts' : i \in Ids /\ alerts'[i] \in Devices
    BY <2>1 DEF TypeInv
  <2>4. receivedAck' \in [Devices -> BOOLEAN]
    BY <1>1 DEF OnMotionDetected, TypeInv
  <2> QED
    BY <1>1, <2>2, <2>3, <2>4 DEF OnMotionDetected, TypeInv
<1>2. ASSUME NEW d \in Devices, Transmit(d)
      PROVE  TypeInv'
  <2>1. PICK reached \in SUBSET (Devices \ {d}) :
          rx' = [e \in Devices |-> IF e \in reached THEN outbox[d] ELSE rx[e]]
    BY <1>2, TransmitShape
  <2>2. rx' \in [Devices -> Slots]
    BY <2>1 DEF TypeInv
  <2>3. outbox' \in [Devices -> Slots]
    <3>1. outbox' = [outbox EXCEPT ![d] = << >>]
      BY <1>2, TransmitShape
    <3> QED
      BY <1>0, <3>1 DEF TypeInv
  <2> QED
    BY <1>2, <2>2, <2>3, TransmitShape DEF TypeInv
<1>3. ASSUME NEW d \in Devices, Listen(d)
      PROVE  TypeInv'
  <2>1. PICK answer \in Slots : outbox' = [outbox EXCEPT ![d] = answer]
    BY <1>3, ListenShape
  <2>2. rx' = [rx EXCEPT ![d] = << >>] /\ handling' = [handling EXCEPT ![d] = rx[d]]
    BY <1>3, ListenShape
  <2>3. rx' \in [Devices -> Slots] /\ handling' \in [Devices -> Slots] /\ outbox' \in [Devices -> Slots]
    BY <1>0, <2>1, <2>2 DEF TypeInv
  <2> QED
    BY <1>3, <2>3, ListenShape DEF TypeInv
<1>4. ASSUME NEW d \in Devices, DispatchApiCall(d)
      PROVE  TypeInv'
  <2>1. handling' \in [Devices -> Slots] /\ rx' \in [Devices -> Slots]
    BY <1>0, <1>4, DispatchShape DEF TypeInv
  <2>2. outbox' \in [Devices -> Slots]
    <3>1. outbox' = outbox \/ outbox' = [outbox EXCEPT ![d] = <<Serialize(Sandbox, d)>>]
      BY <1>4, DispatchShape
    <3>2. <<Serialize(Sandbox, d)>> \in Slots
      BY <1>0, SandboxWire
    <3> QED
      BY <3>1, <3>2 DEF TypeInv
  <2>3. heard' \in [Devices -> Seq(Ids)]
    <3>1. handling[d][1] \in Wire
      BY <1>4, DispatchShape, SlotProperties DEF TypeInv
    <3>2. IsAlarm(handling[d][1]) => Get(handling[d][1], "id") \in Ids
      BY <3>1, WireKinds
    <3>3. \/ IsAlarm(handling[d][1])
             /\ heard' = [heard EXCEPT ![d] = Append(@, Get(handling[d][1], "id"))]
          \/ heard' = heard
      BY <1>4, DispatchShape
    <3>4. IsAlarm(handling[d][1]) => Append(heard[d], Get(handling[d][1], "id")) \in Seq(Ids)
      BY <3>2 DEF TypeInv
    <3> QED
      BY <3>3, <3>4 DEF TypeInv
  <2> QED
    BY <1>4, <2>1, <2>2, <2>3, DispatchShape DEF TypeInv
<1>5. ASSUME NEW d \in Devices, ForeignArrives(d)
      PROVE  TypeInv'
  <2>1. rx' \in [Devices -> Slots]
    BY <1>0, <1>5, ForeignWire DEF ForeignArrives, TypeInv
  <2>2. foreign' \in 0..MaxForeign
    BY <1>5, NetAssumption DEF ForeignArrives, TypeInv
  <2> QED
    BY <1>5, <2>1, <2>2 DEF ForeignArrives, TypeInv
<1>6. ASSUME NEW d \in Devices, Reboot(d)
      PROVE  TypeInv'
  <2>1. /\ rx' \in [Devices -> Slots] /\ handling' \in [Devices -> Slots]
        /\ outbox' \in [Devices -> Slots]
    BY <1>0, <1>6 DEF Reboot, TypeInv
  <2>2. receivedAck' \in [Devices -> BOOLEAN] /\ injected' \in [Devices -> Nat]
    BY <1>6 DEF Reboot, TypeInv
  <2> QED
    BY <1>6, <2>1, <2>2 DEF Reboot, TypeInv
<1>7. CASE UNCHANGED vars
  BY <1>7 DEF vars, TypeInv
<1> QED
  BY <1>1, <1>2, <1>3, <1>4, <1>5, <1>6, <1>7 DEF RebootNext, Next, Step

(* LinkInterface.cpp:46-49: a device owes one transmission at most, and      *)
(* every packet on the air is a request or the ACK of one, through losses,   *)
(* foreign packets and resets.                                               *)
THEOREM TypeCorrect == RebootSpec => []TypeOK
<1>1. TypeInv => TypeOK
  <2> SUFFICES ASSUME TypeInv PROVE TypeOK
    OBVIOUS
  <2>1. ASSUME NEW d \in Devices
        PROVE  /\ rx[d] \in Seq(Wire) /\ Len(rx[d]) <= 1
               /\ handling[d] \in Seq(Wire) /\ Len(handling[d]) <= 1
               /\ outbox[d] \in Seq(Wire) /\ Len(outbox[d]) <= 1
    BY SlotProperties DEF TypeInv
  <2>2. \A d \in Devices : heard[d] \in Seq(Ids \cup {"null"})
    BY DEF TypeInv
  <2> QED
    BY <2>1, <2>2 DEF TypeInv, TypeOK
<1> QED
  BY InitTypeInv, NextTypeInv, <1>1, PTL DEF RebootSpec, RebootNext

-----------------------------------------------------------------------------
(* Each alarm is in one place per device: with its sender as long as it is   *)
(* not sent, then in the radio, in the hands or behind every other one.      *)
Carries(s, id) == s # << >> /\ IsAlarm(s[1]) /\ Get(s[1], "id") = id
Heard(id, d) == id \in Board!Range(heard[d])

Unsent(id, d) ==
  Carries(outbox[d], id) =>
    /\ id \in DOMAIN alerts /\ alerts[id] = d
    /\ \A e \in Devices : ~Carries(rx[e], id) /\ ~Carries(handling[e], id) /\ ~Heard(id, e)
InRadio(id, d) ==
  Carries(rx[d], id) =>
    /\ id \in DOMAIN alerts /\ alerts[id] # d
    /\ ~Carries(handling[d], id) /\ ~Heard(id, d)
InHands(id, d) ==
  Carries(handling[d], id) => id \in DOMAIN alerts /\ alerts[id] # d /\ ~Heard(id, d)
Behind(id, d) == Heard(id, d) => id \in DOMAIN alerts

OnceInv ==
  \A id \in Ids, d \in Devices : Unsent(id, d) /\ InRadio(id, d) /\ InHands(id, d) /\ Behind(id, d)

LEMMA CarriesNothing == \A id : ~Carries(<< >>, id)
  BY DEF Carries

LEMMA CarriesAlarm ==
  ASSUME NEW w, NEW id
  PROVE  Carries(<<w>>, id) <=> IsAlarm(w) /\ Get(w, "id") = id
<1>1. <<w>> # << >> /\ <<w>>[1] = w
  OBVIOUS
<1> QED
  BY <1>1, Zenon DEF Carries

LEMMA RangeOfAppend ==
  ASSUME NEW s \in Seq(Ids), NEW x \in Ids
  PROVE  Board!Range(Append(s, x)) = Board!Range(s) \cup {x}
<1>1. Len(s) \in Nat /\ DOMAIN s = 1..Len(s) /\ DOMAIN Append(s, x) = 1..(Len(s) + 1)
  OBVIOUS
<1>2. \A i \in 1..(Len(s) + 1) : Append(s, x)[i] = IF i = Len(s) + 1 THEN x ELSE s[i]
  OBVIOUS
<1>3. ASSUME NEW y \in Board!Range(Append(s, x))
      PROVE  y \in Board!Range(s) \cup {x}
  <2>1. PICK i \in 1..(Len(s) + 1) : y = Append(s, x)[i]
    BY <1>1 DEF Board!Range
  <2>2. i # Len(s) + 1 => i \in 1..Len(s)
    BY <1>1
  <2> QED
    BY <1>1, <1>2, <2>1, <2>2 DEF Board!Range
<1>4. ASSUME NEW y \in Board!Range(s) \cup {x}
      PROVE  y \in Board!Range(Append(s, x))
  <2>1. CASE y = x
    <3>1. Len(s) + 1 \in DOMAIN Append(s, x) /\ Append(s, x)[Len(s) + 1] = x
      BY <1>1, <1>2
    <3> QED
      BY <2>1, <3>1 DEF Board!Range
  <2>2. CASE y \in Board!Range(s)
    <3>1. PICK i \in 1..Len(s) : y = s[i]
      BY <1>1, <2>2 DEF Board!Range
    <3>2. i \in DOMAIN Append(s, x) /\ Append(s, x)[i] = y
      BY <1>1, <1>2, <3>1
    <3> QED
      BY <3>2 DEF Board!Range
  <2> QED
    BY <2>1, <2>2
<1> QED
  BY <1>3, <1>4

LEMMA InitOnceInv == Init => OnceInv
<1> SUFFICES ASSUME Init PROVE OnceInv
  OBVIOUS
<1>1. ASSUME NEW id \in Ids, NEW d \in Devices
      PROVE  ~Carries(outbox[d], id) /\ ~Carries(rx[d], id) /\ ~Carries(handling[d], id)
  BY CarriesNothing DEF Init
<1>2. ASSUME NEW id \in Ids, NEW d \in Devices
      PROVE  ~Heard(id, d)
  BY DEF Init, Heard, Board!Range
<1> QED
  BY <1>1, <1>2 DEF OnceInv, Unsent, InRadio, InHands, Behind

LEMMA NextOnceInv == TypeInv /\ OnceInv /\ [RebootNext]_vars => OnceInv'
<1> SUFFICES ASSUME TypeInv, OnceInv, [RebootNext]_vars PROVE OnceInv'
  OBVIOUS
<1> USE DEF OnceInv, Unsent, InRadio, InHands, Behind
<1>1. ASSUME NEW d \in Devices, OnMotionDetected(d)
      PROVE  OnceInv'
  <2>1. PICK new \in Ids \ DOMAIN alerts :
          /\ alerts' = [i \in DOMAIN alerts \cup {new} |-> IF i = new THEN d ELSE alerts[i]]
          /\ outbox' = [outbox EXCEPT ![d] = <<Serialize(Alarm(new), d)>>]
    BY <1>1 DEF OnMotionDetected
  <2>2. UNCHANGED <<rx, handling, heard>>
    BY <1>1 DEF OnMotionDetected
  <2>3. ASSUME NEW id \in Ids, NEW e \in Devices
        PROVE  Carries(outbox'[e], id) => Carries(outbox[e], id) \/ (e = d /\ id = new)
    <3>1. Carries(<<Serialize(Alarm(new), d)>>, id) => id = new
      BY CarriesAlarm, AlarmWire
    <3>2. outbox'[e] = IF e = d THEN <<Serialize(Alarm(new), d)>> ELSE outbox[e]
      BY <2>1 DEF TypeInv
    <3> QED
      BY <3>1, <3>2
  <2>4. \A id \in DOMAIN alerts : id \in DOMAIN alerts' /\ alerts'[id] = alerts[id]
    BY <2>1
  <2>5. new \in DOMAIN alerts' /\ alerts'[new] = d /\ new \notin DOMAIN alerts
    BY <2>1
  <2>6. \A id \in Ids, e \in Devices : Heard(id, e)' <=> Heard(id, e)
    BY <2>2 DEF Heard
  <2> QED
    BY <2>2, <2>3, <2>4, <2>5, <2>6
<1>2. ASSUME NEW d \in Devices, Transmit(d)
      PROVE  OnceInv'
  <2>1. PICK reached \in SUBSET (Devices \ {d}) :
          rx' = [e \in Devices |-> IF e \in reached THEN outbox[d] ELSE rx[e]]
    BY <1>2, TransmitShape
  <2>2. outbox' = [outbox EXCEPT ![d] = << >>] /\ UNCHANGED <<handling, alerts, heard>>
    BY <1>2, TransmitShape
  <2>3. ASSUME NEW id \in Ids, NEW e \in Devices
        PROVE  /\ Carries(outbox'[e], id) => Carries(outbox[e], id) /\ e # d
               /\ Carries(rx'[e], id) => Carries(rx[e], id) \/ (Carries(outbox[d], id) /\ e # d)
    BY <2>1, <2>2, CarriesNothing DEF TypeInv
  <2>4. \A id \in Ids, e \in Devices : Heard(id, e)' <=> Heard(id, e)
    BY <2>2 DEF Heard
  <2> QED
    BY <2>2, <2>3, <2>4
<1>3. ASSUME NEW d \in Devices, Listen(d)
      PROVE  OnceInv'
  <2>1. PICK answer \in Slots :
          /\ outbox' = [outbox EXCEPT ![d] = answer]
          /\ answer # << >> => ~IsAlarm(answer[1])
    BY <1>3, ListenShape
  <2>2. /\ rx' = [rx EXCEPT ![d] = << >>] /\ handling' = [handling EXCEPT ![d] = rx[d]]
        /\ UNCHANGED <<alerts, heard>>
    BY <1>3, ListenShape
  <2>3. ASSUME NEW id \in Ids, NEW e \in Devices
        PROVE  /\ Carries(outbox'[e], id) => Carries(outbox[e], id)
               /\ Carries(rx'[e], id) => Carries(rx[e], id) /\ e # d
               /\ Carries(handling'[e], id) => Carries(handling[e], id) \/ (e = d /\ Carries(rx[d], id))
               /\ e # d => handling'[e] = handling[e]
    <3>1. ~Carries(answer, id)
      BY <2>1 DEF Carries
    <3> QED
      BY <2>1, <2>2, <3>1, CarriesNothing DEF TypeInv
  <2>4. \A id \in Ids, e \in Devices : Heard(id, e)' <=> Heard(id, e)
    BY <2>2 DEF Heard
  <2> QED
    BY <2>2, <2>3, <2>4
<1>4. ASSUME NEW d \in Devices, DispatchApiCall(d)
      PROVE  OnceInv'
  <2>1. /\ handling' = [handling EXCEPT ![d] = << >>] /\ handling[d] # << >>
        /\ UNCHANGED <<rx, alerts>>
        /\ \/ IsAlarm(handling[d][1])
              /\ heard' = [heard EXCEPT ![d] = Append(@, Get(handling[d][1], "id"))]
           \/ heard' = heard
        /\ outbox' = outbox \/ outbox' = [outbox EXCEPT ![d] = <<Serialize(Sandbox, d)>>]
    BY <1>4, DispatchShape
  <2>2. ASSUME NEW id \in Ids, NEW e \in Devices
        PROVE  /\ Carries(outbox'[e], id) => Carries(outbox[e], id)
               /\ Carries(handling'[e], id) => Carries(handling[e], id) /\ e # d
    <3>1. ~Carries(<<Serialize(Sandbox, d)>>, id)
      BY CarriesAlarm, SandboxWire
    <3> QED
      BY <2>1, <3>1, CarriesNothing DEF TypeInv
  <2>3. ASSUME NEW id \in Ids, NEW e \in Devices
        PROVE  /\ Heard(id, e) => Heard(id, e)'
               /\ Heard(id, e)' => Heard(id, e) \/ (e = d /\ Carries(handling[d], id))
    <3>1. CASE heard' = heard
      BY <3>1 DEF Heard
    <3>2. CASE /\ IsAlarm(handling[d][1])
               /\ heard' = [heard EXCEPT ![d] = Append(@, Get(handling[d][1], "id"))]
      <4> DEFINE n == Get(handling[d][1], "id")
      <4>1. n \in Ids
        BY <2>1, <3>2, SlotProperties, WireKinds DEF TypeInv
      <4>2. Carries(handling[d], n)
        BY <2>1, <3>2 DEF Carries
      <4> HIDE DEF n
      <4>3. heard'[e] = IF e = d THEN Append(heard[d], n) ELSE heard[e]
        BY <3>2 DEF TypeInv, n
      <4>4. Board!Range(heard'[e]) =
              IF e = d THEN Board!Range(heard[d]) \cup {n} ELSE Board!Range(heard[e])
        BY <4>1, <4>3, RangeOfAppend DEF TypeInv
      <4> QED
        BY <4>2, <4>4 DEF Heard
    <3> QED
      BY <2>1, <3>1, <3>2
  <2> QED
    BY <2>1, <2>2, <2>3
<1>5. ASSUME NEW d \in Devices, ForeignArrives(d)
      PROVE  OnceInv'
  <2>1. PICK w \in Foreign : rx' = [rx EXCEPT ![d] = <<w>>]
    BY <1>5 DEF ForeignArrives
  <2>2. UNCHANGED <<handling, outbox, alerts, heard>>
    BY <1>5 DEF ForeignArrives
  <2>3. ASSUME NEW id \in Ids, NEW e \in Devices
        PROVE  Carries(rx'[e], id) => Carries(rx[e], id)
    <3>1. ~Carries(<<w>>, id)
      BY CarriesAlarm, ForeignWire
    <3> QED
      BY <2>1, <3>1 DEF TypeInv
  <2>4. \A id \in Ids, e \in Devices : Heard(id, e)' <=> Heard(id, e)
    BY <2>2 DEF Heard
  <2> QED
    BY <2>2, <2>3, <2>4
<1>6. ASSUME NEW d \in Devices, Reboot(d)
      PROVE  OnceInv'
  <2>1. /\ rx' = [rx EXCEPT ![d] = << >>] /\ handling' = [handling EXCEPT ![d] = << >>]
        /\ outbox' = [outbox EXCEPT ![d] = << >>] /\ UNCHANGED <<alerts, heard>>
    BY <1>6 DEF Reboot
  <2>2. ASSUME NEW id \in Ids, NEW e \in Devices
        PROVE  /\ Carries(rx'[e], id) => Carries(rx[e], id)
               /\ Carries(handling'[e], id) => Carries(handling[e], id)
               /\ Carries(outbox'[e], id) => Carries(outbox[e], id)
    BY <2>1, CarriesNothing DEF TypeInv
  <2>3. \A id \in Ids, e \in Devices : Heard(id, e)' <=> Heard(id, e)
    BY <2>1 DEF Heard
  <2> QED
    BY <2>1, <2>2, <2>3
<1>7. CASE UNCHANGED vars
  <2>1. UNCHANGED <<rx, handling, outbox, alerts, heard>>
    BY <1>7 DEF vars
  <2> QED
    BY <2>1 DEF Heard
<1> QED
  BY <1>1, <1>2, <1>3, <1>4, <1>5, <1>6, <1>7 DEF RebootNext, Next, Step

LEMMA RebootInvariant == Init /\ [][RebootNext]_vars => [](TypeInv /\ OnceInv)
<1>1. Init => TypeInv /\ OnceInv
  BY InitTypeInv, InitOnceInv
<1>2. TypeInv /\ OnceInv /\ [RebootNext]_vars => (TypeInv /\ OnceInv)'
  BY NextTypeInv, NextOnceInv
<1> QED
  BY <1>1, <1>2, PTL

(* What the board is told of a step of the network.                          *)
LEMMA StepKeepsAlerts == TypeInv /\ OnceInv /\ [RebootNext]_vars => [Board!Next]_(Board!boardVars)
<1> SUFFICES ASSUME TypeInv, OnceInv, [RebootNext]_vars
             PROVE  [Board!Next]_(Board!boardVars)
  OBVIOUS
<1>1. ASSUME NEW d \in Devices, OnMotionDetected(d)
      PROVE  Board!Next
  <2>1. Board!Raise(d)
    BY <1>1 DEF OnMotionDetected, Board!Raise
  <2> QED
    BY <2>1 DEF Board!Next
<1>2. ASSUME NEW d \in Devices, DispatchApiCall(d)
      PROVE  [Board!Next]_(Board!boardVars)
  <2>1. alerts' = alerts /\ handling[d] # << >>
    BY <1>2, DispatchShape
  <2>2. CASE heard' = heard
    BY <2>1, <2>2 DEF Board!boardVars
  <2>3. CASE /\ IsAlarm(handling[d][1])
             /\ heard' = [heard EXCEPT ![d] = Append(@, Get(handling[d][1], "id"))]
    <3> DEFINE n == Get(handling[d][1], "id")
    <3>1. n \in Ids
      BY <2>1, <2>3, SlotProperties, WireKinds DEF TypeInv
    <3>2. Carries(handling[d], n)
      BY <2>1, <2>3 DEF Carries
    <3>3. heard' = [heard EXCEPT ![d] = Append(@, n)]
      BY <2>3
    <3> HIDE DEF n
    <3>4. n \in DOMAIN alerts \ Board!Range(heard[d]) /\ alerts[n] # d
      BY <3>1, <3>2 DEF OnceInv, InHands, Heard
    <3>5. Board!Hear(d)
      BY <2>1, <3>3, <3>4 DEF Board!Hear
    <3> QED
      BY <3>5 DEF Board!Next
  <2> QED
    BY <1>2, <2>2, <2>3, DispatchShape
<1>3. ASSUME NEW d \in Devices, Transmit(d) \/ Listen(d) \/ ForeignArrives(d) \/ Reboot(d)
      PROVE  UNCHANGED Board!boardVars
  BY <1>3, TransmitShape DEF Listen, ForeignArrives, Reboot, Board!boardVars
<1>4. CASE UNCHANGED vars
  BY <1>4 DEF vars, Board!boardVars
<1> QED
  BY <1>1, <1>2, <1>3, <1>4 DEF RebootNext, Next, Step

(* AlarmSystem.h:83-94: however packets are lost, resent by other devices or *)
(* forgotten in a reset, each alarm that is handled was raised, by another   *)
(* device, and is handled once per device at most.                           *)
THEOREM NetKeepsAlertPromise == RebootSpec => KeepsAlertPromise
<1>1. Init => Board!Init
  BY DEF Init, Board!Init
<1> QED
  BY RebootInvariant, StepKeepsAlerts, <1>1, PTL
     DEF RebootSpec, RebootNext, KeepsAlertPromise, Board!Spec

-----------------------------------------------------------------------------
(* A device that owes or has received the ACK of an alarm has one that was   *)
(* told, or is about to be, since no reset comes between.                    *)
Told == \E d \in Devices : heard[d] # << >> \/ (handling[d] # << >> /\ IsAlarm(handling[d][1]))
Acked(s) == s # << >> /\ IsAlarmAck(s[1])
ToldInv == \A d \in Devices : Acked(rx[d]) \/ Acked(outbox[d]) => Told

LEMMA NextToldInv == TypeInv /\ ToldInv /\ [Next]_vars => ToldInv'
<1> SUFFICES ASSUME TypeInv, ToldInv, [Next]_vars PROVE ToldInv'
  OBVIOUS
<1>0. /\ ~Acked(<< >>)
      /\ \A w : Acked(<<w>>) <=> IsAlarmAck(w)
  <2>1. \A w : <<w>> # << >> /\ <<w>>[1] = w
    OBVIOUS
  <2> QED
    BY <2>1, Zenon DEF Acked
<1>1. ASSUME NEW d \in Devices, OnMotionDetected(d)
      PROVE  ToldInv'
  <2>1. PICK id \in Ids : outbox' = [outbox EXCEPT ![d] = <<Serialize(Alarm(id), d)>>]
    BY <1>1 DEF OnMotionDetected
  <2>2. ~Acked(<<Serialize(Alarm(id), d)>>)
    BY <1>0, AlarmWire
  <2>3. \A e \in Devices : Acked(outbox'[e]) => Acked(outbox[e])
    BY <2>1, <2>2 DEF TypeInv
  <2>4. UNCHANGED <<rx, handling, heard>>
    BY <1>1 DEF OnMotionDetected
  <2> QED
    BY <2>3, <2>4 DEF ToldInv, Told
<1>2. ASSUME NEW d \in Devices, Transmit(d)
      PROVE  ToldInv'
  <2>1. PICK reached \in SUBSET (Devices \ {d}) :
          rx' = [e \in Devices |-> IF e \in reached THEN outbox[d] ELSE rx[e]]
    BY <1>2, TransmitShape
  <2>2. outbox' = [outbox EXCEPT ![d] = << >>] /\ UNCHANGED <<handling, heard>>
    BY <1>2, TransmitShape
  <2>3. \A e \in Devices : /\ Acked(outbox'[e]) => Acked(outbox[e])
                           /\ Acked(rx'[e]) => Acked(rx[e]) \/ Acked(outbox[d])
    BY <1>0, <2>1, <2>2 DEF TypeInv
  <2> QED
    BY <2>2, <2>3 DEF ToldInv, Told
<1>3. ASSUME NEW d \in Devices, Listen(d)
      PROVE  ToldInv'
  <2>1. PICK answer \in Slots :
          /\ outbox' = [outbox EXCEPT ![d] = answer]
          /\ answer # << >> => (IsAlarmAck(answer[1]) => IsAlarm(rx[d][1]))
    BY <1>3, ListenShape
  <2>2. /\ rx' = [rx EXCEPT ![d] = << >>] /\ handling' = [handling EXCEPT ![d] = rx[d]]
        /\ rx[d] # << >> /\ handling[d] = << >> /\ heard' = heard
    BY <1>3, ListenShape DEF Idle
  <2>3. Acked(answer) => Told'
    <3>1. handling'[d] = rx[d]
      BY <2>2 DEF TypeInv
    <3> QED
      BY <2>1, <2>2, <3>1 DEF Acked, Told
  <2>4. Told => Told'
    <3>1. \A e \in Devices : e # d => handling'[e] = handling[e]
      BY <2>2 DEF TypeInv
    <3> QED
      BY <2>2, <3>1 DEF Told
  <2>5. \A e \in Devices : /\ Acked(rx'[e]) => Acked(rx[e])
                           /\ Acked(outbox'[e]) => Acked(outbox[e]) \/ Acked(answer)
    BY <1>0, <2>1, <2>2 DEF TypeInv
  <2> QED
    BY <2>3, <2>4, <2>5 DEF ToldInv
<1>4. ASSUME NEW d \in Devices, DispatchApiCall(d)
      PROVE  ToldInv'
  <2>1. /\ handling' = [handling EXCEPT ![d] = << >>] /\ rx' = rx
        /\ \/ heard' = [heard EXCEPT ![d] = Append(@, Get(handling[d][1], "id"))]
           \/ ~IsAlarm(handling[d][1]) /\ heard' = heard
        /\ outbox' = outbox \/ outbox' = [outbox EXCEPT ![d] = <<Serialize(Sandbox, d)>>]
    BY <1>4, DispatchShape
  <2>2. ~Acked(<<Serialize(Sandbox, d)>>)
    BY <1>0, SandboxWire
  <2>3. \A e \in Devices : Acked(outbox'[e]) => Acked(outbox[e])
    BY <2>1, <2>2 DEF TypeInv
  <2>4. Told => Told'
    <3>1. CASE heard' = [heard EXCEPT ![d] = Append(@, Get(handling[d][1], "id"))]
      <4>1. heard'[d] = Append(heard[d], Get(handling[d][1], "id")) /\ heard[d] \in Seq(Ids)
        BY <3>1 DEF TypeInv
      <4>2. heard'[d] # << >>
        BY <4>1
      <4> QED
        BY <4>2 DEF Told
    <3>2. CASE ~IsAlarm(handling[d][1]) /\ heard' = heard
      <4>1. \A e \in Devices : e # d => handling'[e] = handling[e]
        BY <2>1 DEF TypeInv
      <4> QED
        BY <3>2, <4>1 DEF Told
    <3> QED
      BY <2>1, <3>1, <3>2
  <2> QED
    BY <2>1, <2>3, <2>4 DEF ToldInv
<1>5. ASSUME NEW d \in Devices, ForeignArrives(d)
      PROVE  ToldInv'
  <2>1. PICK w \in Foreign : rx' = [rx EXCEPT ![d] = <<w>>]
    BY <1>5 DEF ForeignArrives
  <2>2. \A e \in Devices : Acked(rx'[e]) => Acked(rx[e])
    BY <1>0, <2>1, ForeignWire DEF TypeInv
  <2>3. UNCHANGED <<handling, outbox, heard>>
    BY <1>5 DEF ForeignArrives
  <2> QED
    BY <2>2, <2>3 DEF ToldInv, Told
<1>6. CASE UNCHANGED vars
  BY <1>6 DEF vars, ToldInv, Told
<1> QED
  BY <1>1, <1>2, <1>3, <1>4, <1>5, <1>6 DEF Next, Step

(* LinkInterface.cpp:46-49, 70-81: as long as no device is reset, an ACK of  *)
(* an alarm means that a device was told of one, or is about to be.          *)
THEOREM AcksAreTrue == Spec => []AckedMeansHeard
<1>1. Init => TypeInv /\ ToldInv
  <2>1. Init => ToldInv
    BY DEF Init, ToldInv, Acked
  <2> QED
    BY <2>1, InitTypeInv
<1>2. TypeInv /\ ToldInv /\ [Next]_vars => (TypeInv /\ ToldInv)'
  BY NextTypeInv, NextToldInv DEF RebootNext
<1>3. ToldInv => AckedMeansHeard
  BY DEF ToldInv, Told, Acked, AckedMeansHeard, IsAlarm, IsAlarmAck
<1> QED
  BY <1>1, <1>2, <1>3, PTL DEF Spec

-----------------------------------------------------------------------------
(* What there is to do, by name.                                             *)
RequestsToSend == {d \in Devices : Asks(outbox[d])}
RequestsToRead == {d \in Devices : Asks(rx[d])}
OthersToSend == {d \in Devices : outbox[d] # << >> /\ ~Asks(outbox[d])}
OthersToRead == {d \in Devices : rx[d] # << >> /\ ~Asks(rx[d])}
CallsToMake == {d \in Devices : handling[d] # << >>}

Fewer(is, was) == is \subseteq was /\ is # was

LEMMA LessToDo ==
  ASSUME \/ Fewer(RequestsToSend', RequestsToSend)
         \/ /\ RequestsToSend' = RequestsToSend
            /\ \/ Fewer(RequestsToRead', RequestsToRead)
               \/ /\ RequestsToRead' = RequestsToRead
                  /\ \/ Fewer(OthersToSend', OthersToSend)
                     \/ /\ OthersToSend' = OthersToSend
                        /\ \/ Fewer(OthersToRead', OthersToRead)
                           \/ /\ OthersToRead' = OthersToRead
                              /\ Fewer(CallsToMake', CallsToMake)
  PROVE  EffortShrinks
<1> DEFINE was == Effort
           is == Effort'
<1>1. /\ was[1] = RequestsToSend /\ was[2] = RequestsToRead /\ was[3] = OthersToSend
      /\ was[4] = OthersToRead /\ was[5] = CallsToMake
  BY DEF Effort, RequestsToSend, RequestsToRead, OthersToSend, OthersToRead, CallsToMake
<1>2. /\ is[1] = RequestsToSend' /\ is[2] = RequestsToRead' /\ is[3] = OthersToSend'
      /\ is[4] = OthersToRead' /\ is[5] = CallsToMake'
  BY DEF Effort, RequestsToSend, RequestsToRead, OthersToSend, OthersToRead, CallsToMake
<1> HIDE DEF was, is
<1>3. \E i \in 1..5 : Fewer(is[i], was[i]) /\ \A j \in 1..(i - 1) : is[j] = was[j]
  <2>1. CASE Fewer(is[1], was[1])
    BY <2>1
  <2>2. CASE is[1] = was[1] /\ Fewer(is[2], was[2])
    BY <2>2
  <2>3. CASE is[1] = was[1] /\ is[2] = was[2] /\ Fewer(is[3], was[3])
    BY <2>3
  <2>4. CASE is[1] = was[1] /\ is[2] = was[2] /\ is[3] = was[3] /\ Fewer(is[4], was[4])
    BY <2>4
  <2>5. CASE /\ is[1] = was[1] /\ is[2] = was[2] /\ is[3] = was[3] /\ is[4] = was[4]
             /\ Fewer(is[5], was[5])
    BY <2>5
  <2> QED
    BY <1>1, <1>2, <2>1, <2>2, <2>3, <2>4, <2>5
<1> QED
  BY <1>3 DEF EffortShrinks, Fewer, was, is

(* An answer asks for nothing, and nothing is answered that asked for nothing. *)
LEMMA AnswersAskNothing ==
  ASSUME NEW w, NEW d
  PROVE  ~Asks(Acks(w, d)) /\ (~Asks(<<w>>) => Acks(w, d) = << >>)
<1>1. "ack" \notin DOMAIN AckOf(w, d)
  <2> DEFINE p == Parse(NewPacket("now"), w).packet
             q == Reply(p)
  <2>1. q.ack = FALSE
    BY DEF Reply, Parse, NewPacket
  <2> HIDE DEF q
  <2> QED
    BY <2>1 DEF AckOf, Serialize, q
<1>2. \A a : <<a>> # << >> /\ <<a>>[1] = a
  OBVIOUS
<1>3. Received(w).ack => "ack" \in DOMAIN w /\ w["ack"]
  BY DEF Received, Parse, NewPacket
<1> QED
  BY <1>1, <1>2, <1>3 DEF Acks, Asks

LEMMA TransmitShrinks ==
  ASSUME TypeInv, NEW d \in Devices, Transmit(d)
  PROVE  EffortShrinks
<1>1. PICK reached \in SUBSET (Devices \ {d}) :
        rx' = [e \in Devices |-> IF e \in reached THEN outbox[d] ELSE rx[e]]
  BY TransmitShape
<1>2. outbox[d] # << >> /\ outbox' = [outbox EXCEPT ![d] = << >>]
  BY TransmitShape
<1>3. ~Asks(<< >>)
  BY DEF Asks
<1>4. outbox'[d] = << >> /\ \A e \in Devices \ {d} : outbox'[e] = outbox[e]
  BY <1>2 DEF TypeInv
<1>5. CASE Asks(outbox[d])
  <2>1. Fewer(RequestsToSend', RequestsToSend)
    BY <1>3, <1>4, <1>5 DEF RequestsToSend, Fewer
  <2> QED
    BY <2>1, LessToDo
<1>6. CASE ~Asks(outbox[d])
  <2>1. RequestsToSend' = RequestsToSend
    BY <1>3, <1>4, <1>6 DEF RequestsToSend
  <2>2. RequestsToRead' \subseteq RequestsToRead
    BY <1>1, <1>6 DEF RequestsToRead
  <2>3. Fewer(OthersToSend', OthersToSend)
    BY <1>2, <1>4, <1>6 DEF OthersToSend, Fewer
  <2> QED
    BY <2>1, <2>2, <2>3, LessToDo DEF Fewer
<1> QED
  BY <1>5, <1>6

LEMMA ListenShrinks ==
  ASSUME TypeInv, NEW d \in Devices, Listen(d)
  PROVE  EffortShrinks
<1>1. /\ outbox[d] = << >> /\ rx[d] # << >> /\ rx' = [rx EXCEPT ![d] = << >>]
      /\ outbox' = [outbox EXCEPT ![d] = Acks(rx[d][1], d)]
  BY DEF Listen, Idle
<1>2. ~Asks(<< >>)
  BY DEF Asks
<1>3. rx[d] = <<rx[d][1]>>
  BY <1>1, SlotProperties DEF TypeInv
<1>4. ~Asks(Acks(rx[d][1], d)) /\ (~Asks(rx[d]) => Acks(rx[d][1], d) = << >>)
  BY <1>3, AnswersAskNothing
<1>5. /\ rx'[d] = << >> /\ \A e \in Devices \ {d} : rx'[e] = rx[e]
      /\ outbox'[d] = Acks(rx[d][1], d) /\ \A e \in Devices \ {d} : outbox'[e] = outbox[e]
  BY <1>1 DEF TypeInv
<1>6. RequestsToSend' = RequestsToSend
  BY <1>1, <1>2, <1>4, <1>5 DEF RequestsToSend
<1>7. CASE Asks(rx[d])
  <2>1. Fewer(RequestsToRead', RequestsToRead)
    BY <1>2, <1>5, <1>7 DEF RequestsToRead, Fewer
  <2> QED
    BY <1>6, <2>1, LessToDo
<1>8. CASE ~Asks(rx[d])
  <2>1. RequestsToRead' = RequestsToRead
    BY <1>2, <1>5, <1>8 DEF RequestsToRead
  <2>2. OthersToSend' = OthersToSend
    BY <1>1, <1>4, <1>5, <1>8 DEF OthersToSend
  <2>3. Fewer(OthersToRead', OthersToRead)
    BY <1>1, <1>5, <1>8 DEF OthersToRead, Fewer
  <2> QED
    BY <1>6, <2>1, <2>2, <2>3, LessToDo
<1> QED
  BY <1>7, <1>8

LEMMA DispatchShrinks ==
  ASSUME TypeInv, NEW d \in Devices, DispatchApiCall(d), ~Provoked
  PROVE  EffortShrinks
<1>1. /\ handling[d] # << >> /\ handling' = [handling EXCEPT ![d] = << >>] /\ rx' = rx
  BY DispatchShape
<1>2. handling'[d] = << >> /\ \A e \in Devices \ {d} : handling'[e] = handling[e]
  BY <1>1 DEF TypeInv
<1>3. outbox' = outbox
  <2>1. ~IsCall(handling[d][1], "test", "sandbox")
    BY <1>1, <1>2 DEF Provoked
  <2>2. CASE TestOnApiCall(d)
    BY <2>1, <2>2 DEF TestOnApiCall, Call, Handled, IsCall
  <2>3. CASE ~TestOnApiCall(d)
    BY <2>3 DEF DispatchApiCall, AlarmOnApiCall, NotifierOnApiCall, LoraOnApiCall, Unregistered
  <2> QED
    BY <2>2, <2>3
<1>4. Fewer(CallsToMake', CallsToMake)
  BY <1>1, <1>2 DEF CallsToMake, Fewer
<1>5. /\ RequestsToSend' = RequestsToSend /\ RequestsToRead' = RequestsToRead
      /\ OthersToSend' = OthersToSend /\ OthersToRead' = OthersToRead
  BY <1>1, <1>3 DEF RequestsToSend, RequestsToRead, OthersToSend, OthersToRead
<1> QED
  BY <1>4, <1>5, LessToDo

(* LinkInterface.cpp:70-81, TestModule.h:103: on any number of devices, what *)
(* no alarm, other transmitter or sandbox call provokes has less to do after *)
(* each step than before it, so that it comes to an end.                     *)
THEOREM NoTrafficFromNothing == RebootSpec => TrafficDies
<1>1. TypeInv /\ [RebootNext]_vars =>
        [Provoked \/ EffortShrinks \/ \E d \in Devices : Reboot(d)]_vars
  <2> SUFFICES ASSUME TypeInv, RebootNext, ~Provoked, ~\E d \in Devices : Reboot(d)
               PROVE  EffortShrinks
    OBVIOUS
  <2>1. ASSUME NEW d \in Devices, OnMotionDetected(d) PROVE FALSE
    <3>1. PICK id \in Ids \ DOMAIN alerts :
            alerts' = [i \in DOMAIN alerts \cup {id} |-> IF i = id THEN d ELSE alerts[i]]
      BY <2>1 DEF OnMotionDetected
    <3>2. alerts' # alerts
      BY <3>1
    <3> QED
      BY <3>2 DEF Provoked
  <2>2. ASSUME NEW d \in Devices, ForeignArrives(d) PROVE FALSE
    BY <2>2, NetAssumption DEF ForeignArrives, Provoked, TypeInv
  <2> QED
    BY <2>1, <2>2, TransmitShrinks, ListenShrinks, DispatchShrinks DEF RebootNext, Next, Step
<1> QED
  BY InitTypeInv, NextTypeInv, <1>1, PTL DEF RebootSpec, RebootNext, TrafficDies
=============================================================================
