------------------------------- MODULE Packet -------------------------------
(***************************************************************************)
(* Packets and foreign events as they travel (CommonObj.cpp): what         *)
(* serialize writes, what parse makes of it, and the acknowledgement that  *)
(* LinkInterface::sendAck derives from a received packet.                  *)
(*                                                                         *)
(* A JSON object is a function from the names of its members to their      *)
(* values.  Of a text only what the ':' delimiter makes of it matters: it  *)
(* is the sequence of the segments between the colons, so that writing     *)
(* a + ":" + b is concatenation and the empty text is one empty segment.   *)
(***************************************************************************)
EXTENDS Naturals, Sequences

Empty == ""
EmptyText == <<Empty>>
Plain(text) == Len(text) = 1 /\ text # EmptyText

Garbled == [garbled |-> TRUE]   \* a transmission that is not JSON

(* ArduinoJson: a member that is absent converts to the string "null". *)
Get(json, member) == IF member \in DOMAIN json THEN json[member] ELSE "null"
GetText(json, member) == IF member \in DOMAIN json THEN json[member] ELSE <<"null">>

-----------------------------------------------------------------------------
(* Packet::Packet; now is millis() as a string. *)
NewPacket(now) ==
  [timestamp |-> now, api |-> EmptyText, cmd |-> EmptyText, data |-> Empty,
   sender |-> Empty, target |-> Empty, ack |-> FALSE]

(* The endpoint names the module and its command; seeded fault: the other    *)
(* way round.                                                                *)
EndpointSwapped(p) == p.cmd \o p.api
Endpoint(p) == p.api \o p.cmd

(* Packet::serialize, on the device whose configuration has this deviceId. *)
Serialize(p, deviceId) ==
  LET members == {"endpoint", "data"}
                 \cup (IF p.timestamp # Empty THEN {"id"} ELSE {})
                 \cup (IF p.target # Empty THEN {"src", "dst"} ELSE {})
                 \cup (IF p.ack THEN {"ack"} ELSE {})
      value == [id |-> p.timestamp, src |-> deviceId, dst |-> p.target,
                ack |-> TRUE, endpoint |-> Endpoint(p), data |-> p.data]
  IN  [m \in members |-> value[m]]

(* splitFromCharDelim: getline yields no empty segment at the very end. *)
Split(text) ==
  IF text[Len(text)] = Empty THEN SubSeq(text, 1, Len(text) - 1) ELSE text

Valid(timestamp, endpoint) ==
  /\ timestamp # Empty
  /\ endpoint # EmptyText
  /\ Len(Split(endpoint)) >= 2
  /\ Split(endpoint)[1] # Empty /\ Split(endpoint)[2] # Empty

(* Packet::parse, into the packet p: text that is not JSON leaves p alone,   *)
(* an invalid endpoint leaves only its names alone.                          *)
Parse(p, json) ==
  LET timestamp == Get(json, "timestamp")
      endpoint == GetText(json, "endpoint")
      fields == [p EXCEPT !.timestamp = timestamp, !.sender = Get(json, "src"),
                          !.target = Get(json, "dst"), !.data = Get(json, "data"),
                          !.ack = "ack" \in DOMAIN json /\ json["ack"]]
  IN  CASE json = Garbled -> [ok |-> FALSE, packet |-> p]
        [] json # Garbled /\ ~Valid(timestamp, endpoint)
             -> [ok |-> FALSE, packet |-> fields]
        [] OTHER
             -> [ok |-> TRUE,
                 packet |-> [fields EXCEPT !.api = <<Split(endpoint)[1]>>,
                                           !.cmd = <<Split(endpoint)[2]>>]]

(* Seeded faults: the acknowledgement goes where the request went, asks for  *)
(* an acknowledgement, or keeps the endpoint of the request.                 *)
ReplyUnswapped(p) == [p EXCEPT !.api = <<"msgACK">>, !.data = Empty, !.ack = FALSE]
ReplyInsists(p) == [p EXCEPT !.target = p.sender, !.api = <<"msgACK">>, !.data = Empty]
ReplySameEndpoint(p) == [p EXCEPT !.target = p.sender, !.data = Empty, !.ack = FALSE]

(* LinkInterface::sendAck: the packet that was received, turned into its     *)
(* acknowledgement, as the device deviceId sends it.                         *)
Reply(p) ==
  [p EXCEPT !.target = p.sender, !.api = <<"msgACK">>, !.data = Empty, !.ack = FALSE]
AckOf(json, deviceId) == Serialize(Reply(Parse(NewPacket("now"), json).packet), deviceId)

-----------------------------------------------------------------------------
(* ForeignEvent: an event under the name of the device that reports it. *)
ForeignEvent(evt, source) == [evt EXCEPT !.source = source]

(* Seeded fault: the content is written as the type. *)
ToObjContentMixed(evt) ==
  [type |-> evt.content, content |-> evt.content, sender |-> evt.source, time |-> evt.time]

(* Event::toObjContent; "sender" is not the name that is read back. *)
ToObjContent(evt) ==
  [type |-> evt.type, content |-> evt.content, sender |-> evt.source, time |-> evt.time]

(* ForeignEvent::fromObjContent; now is the default of the context. *)
FromObjContent(json, now) ==
  [type |-> Get(json, "type"), content |-> Get(json, "content"),
   source |-> Get(json, "evtSender"), time |-> now]

-----------------------------------------------------------------------------
(* CommonObj.cpp:19-76: a packet whose two names are plain crosses the link: *)
(* parse accepts what serialize wrote and routes it to the same endpoint,    *)
(* with the same data and the same wish for an ACK.  Its target arrives, and *)
(* as its sender the device that wrote it, if it is addressed; otherwise     *)
(* both read "null".  Its timestamp is lost: it is written as "id" and read  *)
(* as "timestamp", so every packet arrives with "null".                      *)
Crosses(p, deviceId) ==
  LET got == Parse(NewPacket("now"), Serialize(p, deviceId))
      addressed == p.target # Empty
  IN  Plain(p.api) /\ Plain(p.cmd) =>
        /\ got.ok
        /\ got.packet.api = p.api /\ got.packet.cmd = p.cmd
        /\ got.packet.data = p.data /\ got.packet.ack = p.ack
        /\ got.packet.target = IF addressed THEN p.target ELSE "null"
        /\ got.packet.sender = IF addressed THEN deviceId ELSE "null"
        /\ got.packet.timestamp = "null"

(* LinkInterface.cpp:70-81: the acknowledgement of an addressed packet, made *)
(* by a device it reached, is addressed to the device that sent the packet,  *)
(* names the command it acknowledges, and asks for no acknowledgement.       *)
AckComesBack(p, from, by) ==
  LET ack == Parse(NewPacket("now"), AckOf(Serialize(p, from), by))
  IN  Plain(p.api) /\ Plain(p.cmd) /\ p.target # Empty =>
        /\ ack.ok /\ ~ack.packet.ack
        /\ ack.packet.api = <<"msgACK">> /\ ack.packet.cmd = p.cmd
        /\ ack.packet.target = from /\ ack.packet.sender = by
=============================================================================
