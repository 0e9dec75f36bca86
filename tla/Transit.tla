------------------------------- MODULE Transit -------------------------------
(***************************************************************************)
(* A packet and an event that are handed on from device to device: each    *)
(* serializes what it has got, and the next one reads that.  Nothing of a  *)
(* packet or an event is kept between two hops but what was read.          *)
(***************************************************************************)
EXTENDS Packet

CONSTANTS
  Relays,    \* the deviceIds of those that hand on
  Packets,   \* the packets that are sent
  Reports    \* the events that are reported

ASSUME TransitAssumption ==
  /\ Empty \notin Relays
  /\ \A p \in Packets : p.api \in Seq(STRING) /\ p.cmd \in Seq(STRING) /\ p.ack \in BOOLEAN

VARIABLES
  carried,    \* a packet, as the last device it reached has it
  told,       \* an event, likewise
  reported    \* history: the event as it was first reported

hopVars == <<carried, told, reported>>

HopInit == carried \in Packets /\ told \in Reports /\ reported = told

HopPacket(d) ==
  /\ carried' = Parse(NewPacket("now"), Serialize(carried, d)).packet
  /\ UNCHANGED <<told, reported>>

HopEvent(d) ==
  /\ told' = FromObjContent(ToObjContent(ForeignEvent(told, d)), "now")
  /\ UNCHANGED <<carried, reported>>

HopNext == \E d \in Relays : HopPacket(d) \/ HopEvent(d)

HopSpec == HopInit /\ [][HopNext]_hopVars

-----------------------------------------------------------------------------
(* CommonObj.cpp:19-76: every packet with plain names crosses every link, as *)
(* far as Crosses says, and so does what arrived, at the next hop.           *)
PacketCrosses == \A d \in Relays : Crosses(carried, d)

(* LinkInterface.cpp:70-81: the acknowledgement of every addressed packet    *)
(* comes back to the device that sent it.                                    *)
PacketAckComesBack == \A d, e \in Relays : AckComesBack(carried, d, e)

(* CommonObj.cpp:98-125: an event is handed on with the type that routes it  *)
(* to its handlers and with its content, however many devices it hops over.  *)
(* Where it comes from and when it happened are lost at the first hop: the   *)
(* source is written as "sender" and read as "evtSender", and the time is    *)
(* not read.                                                                 *)
EventKept ==
  told # reported =>
    /\ told.type = reported.type /\ told.content = reported.content
    /\ told.source = "null" /\ told.time = "now"
=============================================================================
