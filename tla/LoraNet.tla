------------------------------ MODULE LoraNet ------------------------------
(***************************************************************************)
(* Devices that run the main firmware, in reach of each other by LoRa:     *)
(* LoraInterface::listen, LinkInterface::onPacket with its automatic ACK,  *)
(* ApiModule::dispatchApiCall and the modules it reaches.                  *)
(*                                                                         *)
(* sendText blocks the loop while it transmits, so what a handler sends    *)
(* waits in outbox and the device does nothing else until it is empty.     *)
(* The radio is external: everybody hears everybody (one sync word), a     *)
(* transmission reaches any subset of the devices that are not sending     *)
(* themselves, and a device holds one received packet, which a later one   *)
(* replaces.  When a motion leads to an alarm is AlarmSystem's subject:    *)
(* here it may at any time.                                                *)
(***************************************************************************)
EXTENDS Packet, FiniteSets

CONSTANTS
  Devices,      \* the deviceIds
  Ids,          \* bound: the time stamps of the alarms raised in a behaviour
  Foreign,      \* packets other transmitters may send, none for "onAlert"
  MaxForeign    \* bound: how many of them in a behaviour

ASSUME NetAssumption == MaxForeign \in Nat /\ Empty \notin Ids

VARIABLES
  rx,           \* rx[d]: the packet in the radio of d, a sequence of at most one
  handling,     \* handling[d]: the packet that onPacket is handling, if any
  outbox,       \* outbox[d]: what the code running on d is transmitting
  receivedAck,  \* receivedAck[d]: AlarmSystem::receivedAck
  injected,     \* injected[d]: events that onForeignEvent pushed
  alerts,       \* history: the alarms raised, and by whom
  heard,        \* history: heard[d]: the ids of the packets onSoundAlert saw
  foreign       \* history: how many foreign packets arrived

vars == <<rx, handling, outbox, receivedAck, injected, alerts, heard, foreign>>

Init ==
  /\ rx = [d \in Devices |-> << >>]
  /\ handling = [d \in Devices |-> << >>]
  /\ outbox = [d \in Devices |-> << >>]
  /\ receivedAck = [d \in Devices |-> FALSE]
  /\ injected = [d \in Devices |-> 0]
  /\ alerts = << >>
  /\ heard = [d \in Devices |-> << >>]
  /\ foreign = 0

(* The loop of d is neither transmitting nor inside onPacket. *)
Idle(d) == outbox[d] = << >> /\ handling[d] = << >>

-----------------------------------------------------------------------------
(* The requests the modules send; both ask for an ACK and address nobody. *)
Alarm(id) ==
  [NewPacket(id) EXCEPT !.api = <<"Alarm">>, !.cmd = <<"onAlert">>, !.ack = TRUE]
Sandbox ==
  [NewPacket("now") EXCEPT !.api = <<"test">>, !.cmd = <<"sandbox">>, !.ack = TRUE]

(* onMotionDetected, when the delays allow it. *)
OnMotionDetected(d) ==
  /\ Idle(d)
  /\ \E id \in Ids \ DOMAIN alerts :
       /\ alerts' = [i \in DOMAIN alerts \cup {id} |-> IF i = id THEN d ELSE alerts[i]]
       /\ outbox' = [outbox EXCEPT ![d] = <<Serialize(Alarm(id), d)>>]
  /\ receivedAck' = [receivedAck EXCEPT ![d] = FALSE]
  /\ UNCHANGED <<rx, handling, injected, heard, foreign>>

(* One packet leaves d; the devices in reached get it into their radio. *)
TransmitTo(d, reached) ==
  /\ outbox[d] # << >>
  /\ rx' = [e \in Devices |-> IF e \in reached THEN <<Head(outbox[d])>> ELSE rx[e]]
  /\ outbox' = [outbox EXCEPT ![d] = Tail(@)]
  /\ UNCHANGED <<handling, receivedAck, injected, alerts, heard, foreign>>

Listening(d) == {e \in Devices \ {d} : outbox[e] = << >>}
Transmit(d) == \E reached \in SUBSET Listening(d) : TransmitTo(d, reached)

(* A packet of another transmitter arrives at d. *)
ForeignArrives(d) ==
  /\ outbox[d] = << >> /\ foreign < MaxForeign
  /\ \E w \in Foreign : rx' = [rx EXCEPT ![d] = <<w>>]
  /\ foreign' = foreign + 1
  /\ UNCHANGED <<handling, outbox, receivedAck, injected, alerts, heard>>

-----------------------------------------------------------------------------
(* What the code on d reads in a received packet, valid or not. *)
Received(w) == Parse(NewPacket("now"), w).packet

(* The alarms that are counted are those of Devices. *)
ASSUME ForeignAssumption == \A w \in Foreign : Received(w).cmd # <<"onAlert">>

Acks(w, d) == IF Received(w).ack THEN <<AckOf(w, d)>> ELSE << >>

(* Seeded fault: a packet that asks for an ACK gets that and nothing more. *)
ListenAcksOnly(d) ==
  /\ Idle(d) /\ rx[d] # << >>
  /\ handling' = [handling EXCEPT ![d] = IF Received(rx[d][1]).ack THEN << >> ELSE rx[d]]
  /\ outbox' = [outbox EXCEPT ![d] = Acks(rx[d][1], d)]
  /\ rx' = [rx EXCEPT ![d] = << >>]
  /\ UNCHANGED <<receivedAck, injected, alerts, heard, foreign>>

(* Seeded fault: a packet is taken while earlier answers still wait. *)
ListenEagerly(d) ==
  /\ handling[d] = << >> /\ rx[d] # << >>
  /\ handling' = [handling EXCEPT ![d] = rx[d]]
  /\ outbox' = [outbox EXCEPT ![d] = @ \o Acks(rx[d][1], d)]
  /\ rx' = [rx EXCEPT ![d] = << >>]
  /\ UNCHANGED <<receivedAck, injected, alerts, heard, foreign>>

(* listen and onPacket: whether the packet is valid does not matter, whom it *)
(* is addressed to does not either, and its ACK goes out before anything is  *)
(* done about it.                                                            *)
Listen(d) ==
  /\ Idle(d) /\ rx[d] # << >>
  /\ handling' = [handling EXCEPT ![d] = rx[d]]
  /\ outbox' = [outbox EXCEPT ![d] = Acks(rx[d][1], d)]
  /\ rx' = [rx EXCEPT ![d] = << >>]
  /\ UNCHANGED <<receivedAck, injected, alerts, heard, foreign>>

-----------------------------------------------------------------------------
(* dispatchApiCall, once the ACK is out, calls the module of that name.      *)
Handled(d) == Received(handling[d][1])
Call(d, api) ==
  /\ outbox[d] = << >> /\ handling[d] # << >>
  /\ Handled(d).api = <<api>>
  /\ handling' = [handling EXCEPT ![d] = << >>]

(* AlarmSystem::onApiCall: onSoundAlert only writes a log. *)
AlarmOnApiCall(d) ==
  /\ Call(d, "Alarm")
  /\ heard' = IF Handled(d).cmd = <<"onAlert">>
                THEN [heard EXCEPT ![d] = Append(@, Get(handling[d][1], "id"))] ELSE heard
  /\ receivedAck' = IF Handled(d).cmd = <<"msgACK">>
                      THEN [receivedAck EXCEPT ![d] = TRUE] ELSE receivedAck
  /\ UNCHANGED <<rx, outbox, injected, alerts, foreign>>

(* TestModule::onApiCall: testSandbox sends the same request again. *)
TestOnApiCall(d) ==
  /\ Call(d, "test")
  /\ outbox' = IF Handled(d).cmd = <<"sandbox">>
                 THEN [outbox EXCEPT ![d] = <<Serialize(Sandbox, d)>>] ELSE outbox
  /\ UNCHANGED <<rx, receivedAck, injected, alerts, heard, foreign>>

(* EventMessageNotifications::onApiCall looks for the command in the api. *)
NotifierOnApiCall(d) ==
  /\ Call(d, "notifier")
  /\ injected' = IF Handled(d).api = <<"onForeignEvent">>
                   THEN [injected EXCEPT ![d] = @ + 1] ELSE injected
  /\ UNCHANGED <<rx, outbox, receivedAck, alerts, heard, foreign>>

(* LoraInterface::onApiCall: "setup" is read as if it were the settings,     *)
(* which it is not, and changes nothing.                                     *)
LoraOnApiCall(d) ==
  /\ Call(d, "Lora")
  /\ UNCHANGED <<rx, outbox, receivedAck, injected, alerts, heard, foreign>>

(* No module has any other name. *)
Unregistered(d) ==
  /\ handling[d] # << >>
  /\ Handled(d).api \notin {<<"Alarm">>, <<"test">>, <<"notifier">>, <<"Lora">>}
  /\ Call(d, Handled(d).api[1])
  /\ UNCHANGED <<rx, outbox, receivedAck, injected, alerts, heard, foreign>>

DispatchApiCall(d) ==
  \/ AlarmOnApiCall(d)
  \/ TestOnApiCall(d)
  \/ NotifierOnApiCall(d)
  \/ LoraOnApiCall(d)
  \/ Unregistered(d)

(* A reset of the device: what was in memory is gone. *)
Reboot(d) ==
  /\ rx' = [rx EXCEPT ![d] = << >>]
  /\ handling' = [handling EXCEPT ![d] = << >>]
  /\ outbox' = [outbox EXCEPT ![d] = << >>]
  /\ receivedAck' = [receivedAck EXCEPT ![d] = FALSE]
  /\ injected' = [injected EXCEPT ![d] = 0]
  /\ UNCHANGED <<alerts, heard, foreign>>

Step(d) ==
  \/ OnMotionDetected(d)
  \/ Transmit(d)
  \/ Listen(d)
  \/ DispatchApiCall(d)

Next == \E d \in Devices : Step(d) \/ ForeignArrives(d)

Spec == Init /\ [][Next]_vars

RebootSpec == Init /\ [][Next \/ \E d \in Devices : Reboot(d)]_vars

(* Every loop keeps running, so a transmission ends, a packet is read and    *)
(* its call is made.                                                         *)
LoopFairness ==
  \A d \in Devices : WF_vars(Transmit(d)) /\ WF_vars(Listen(d)) /\ WF_vars(DispatchApiCall(d))

FairSpec == Spec /\ LoopFairness

-----------------------------------------------------------------------------
(* Every packet anywhere is one the firmware or another transmitter made. *)
Requests == {Serialize(Alarm(id), d) : id \in Ids, d \in Devices}
            \cup {Serialize(Sandbox, d) : d \in Devices} \cup Foreign
Wire == Requests \cup {AckOf(w, d) : w \in Requests, d \in Devices}

(* LinkInterface.cpp:46-49 and TestModule.h:103: the loop sends what one     *)
(* packet provokes before it takes the next, so a device never owes more     *)
(* than one transmission, and nothing but requests and their ACKs, never the *)
(* ACK of an ACK, is on the air.                                             *)
TypeOK ==
  /\ \A d \in Devices :
       /\ rx[d] \in Seq(Wire) /\ Len(rx[d]) <= 1
       /\ handling[d] \in Seq(Wire) /\ Len(handling[d]) <= 1
       /\ outbox[d] \in Seq(Wire) /\ Len(outbox[d]) <= 1
       /\ heard[d] \in Seq(Ids \cup {"null"})
  /\ receivedAck \in [Devices -> BOOLEAN]
  /\ injected \in [Devices -> Nat]
  /\ \A id \in DOMAIN alerts : id \in Ids /\ alerts[id] \in Devices
  /\ foreign \in 0..MaxForeign

(* The radio network keeps the promise of AlertBoard: a request is handled   *)
(* once per device at most, never by its sender, and an ACK never taken for  *)
(* a request.                                                                *)
Board == INSTANCE AlertBoard
KeepsAlertPromise == Board!Spec

IsCall(w, api, cmd) == Received(w).api = <<api>> /\ Received(w).cmd = <<cmd>>

(* docs/specs.md:56, "message delivery confirmation: ACK": while an ACK of   *)
(* an alarm is on its way, some device was told of an alarm or is about to.  *)
AckedMeansHeard ==
  (\E d \in Devices : rx[d] # << >> /\ IsCall(rx[d][1], "msgACK", "onAlert"))
  => \E d \in Devices : \/ heard[d] # << >>
                        \/ handling[d] # << >> /\ IsCall(handling[d][1], "Alarm", "onAlert")

(* LinkInterface.cpp:70-81: an ACK provokes no packet, so once no alarm is   *)
(* raised any more the network falls silent, whatever is lost.               *)
Silent == \A d \in Devices : rx[d] = << >> /\ Idle(d)
FallsSilent == <>[]Silent

(* What there is still to do, the most consequential first: requests that    *)
(* wait to be sent, requests to be read, other packets to be sent, other     *)
(* packets to be read, calls to be made; each as the devices that have one.  *)
Asks(packet) == packet # << >> /\ "ack" \in DOMAIN packet[1] /\ packet[1]["ack"]
Effort ==
  << {d \in Devices : Asks(outbox[d])},
     {d \in Devices : Asks(rx[d])},
     {d \in Devices : outbox[d] # << >> /\ ~Asks(outbox[d])},
     {d \in Devices : rx[d] # << >> /\ ~Asks(rx[d])},
     {d \in Devices : handling[d] # << >>} >>

EffortShrinks ==
  LET was == Effort
      is == Effort'
  IN  \E i \in 1..5 : /\ is[i] \subseteq was[i] /\ is[i] # was[i]
                     /\ \A j \in 1..(i - 1) : is[j] = was[j]

(* An alarm, a packet of another transmitter, or an answered sandbox call. *)
Provoked ==
  \/ alerts' # alerts \/ foreign' # foreign
  \/ \E d \in Devices : /\ handling[d] # << >> /\ handling'[d] = << >>
                       /\ IsCall(handling[d][1], "test", "sandbox")

(* LinkInterface.cpp:46-49, 70-81 and TestModule.h:103: nothing but an alarm, *)
(* another transmitter or a sandbox call makes work for the network; each     *)
(* other step of a running device leaves less to do than there was, whatever  *)
(* is lost, overwritten or acknowledged.  So traffic that never ends is the   *)
(* sandbox's, if nobody raises alarms for ever.                               *)
TrafficDies ==
  [][Provoked \/ EffortShrinks \/ \E d \in Devices : Reboot(d)]_vars

-----------------------------------------------------------------------------
(* AlarmSystem.h:97-102, "API call handled on trigger device": the ACK of an *)
(* alarm, dispatched, sets receivedAck.                                      *)
AckReachesAlarm ==
  [][\A d \in Devices :
       (/\ handling[d] # << >> /\ handling'[d] = << >>
        /\ IsCall(handling[d][1], "msgACK", "onAlert")) => receivedAck'[d]]_vars
=============================================================================
