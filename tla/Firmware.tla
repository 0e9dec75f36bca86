------------------------------ MODULE Firmware ------------------------------
(***************************************************************************)
(* loop() of the main firmware: the event queue with the websocket         *)
(* interface, joined by EventMessageNotifications, the subscriber that     *)
(* broadcasts every event to the websocket clients.                        *)
(*                                                                         *)
(* WebServer::loop() runs the handlers of connections that open and close; *)
(* each of them writes a log, which is pushed, dispatched and broadcast in *)
(* its turn.  Message n of WsInterface is the n-th event that the notifier *)
(* was called with.  Connections are numbered in the order they open.      *)
(***************************************************************************)
EXTENDS EventQueue, FiniteSets

CONSTANTS
  Notifier,    \* the instance of EventMessageNotifications
  Conns,       \* the connections clients ever open: numbers from 1
  MaxClients   \* MAX_CLIENTS

ASSUME FirmwareAssumption ==
  /\ Notifier \in Handlers /\ Listens[Notifier] = "*"
  /\ HandlerLogs[Notifier] = {<< >>}
  /\ IsFiniteSet(Conns) /\ Conns \subseteq Nat

VARIABLES instances, clientKey, status, inbox, due, sent

wsVars == <<instances, clientKey, status, inbox, due, sent>>
fwVars == <<vars, wsVars>>

(* All the records there can be: those of connections, of the alarm, of an   *)
(* event that nobody takes, and of the rest of the services.                 *)
MaxRecords == MaxLogs + 2 * Cardinality(Conns) + 3 * MaxTriggers

Ws == INSTANCE WsInterface WITH
  RouteOf <- [c \in Conns |-> "/ws"], MaxMessages <- MaxRecords + MaxTriggers

FwInit == Init /\ Ws!Init

(* A handler of the web server ran, and wrote a record. *)
HandlerRan ==
  /\ Ready("services")
  /\ logsDue' = <<Info>>
  /\ UNCHANGED <<queueVars, loopVars, pushVars, logBuffer, triggers, pushed, got>>

Connect(c) ==
  /\ \A d \in Conns : d < c => status[d] # "idle"
  /\ HandlerRan
  /\ Ws!OnCreate(c)

Disconnect(c) == HandlerRan /\ Ws!OnClose(c)

CallsNotifier ==
  /\ Ready("dispatch")
  /\ pos <= Len(Subscribers) /\ Subscribers[pos] = Notifier

(* Seeded fault: automatic notification is off. *)
OnEventQuietly == CallsNotifier /\ LoopTask /\ UNCHANGED wsVars

(* EventMessageNotifications::onEvent: what it is called with goes out to    *)
(* every client; it writes no log.                                           *)
OnEvent == CallsNotifier /\ LoopTask /\ Ws!NotifyAll

RestOfLoop == ~CallsNotifier /\ LoopTask /\ UNCHANGED wsVars

FwLoop == OnEvent \/ RestOfLoop

FwNext ==
  \/ FwLoop
  \/ \E c \in Conns : Connect(c) \/ Disconnect(c)
  \/ ~InPush /\ Interrupt /\ UNCHANGED wsVars

(* loop() is called for ever, and every handler returns; clients come and    *)
(* leave as they like.                                                       *)
FwSpec == FwInit /\ [][FwNext]_fwVars /\ WF_fwVars(FwLoop)

-----------------------------------------------------------------------------
(* EventMessageNotifications.h:48-49, "by default sending all events to all  *)
(* connected client on WS interface": each client sees, from the moment it   *)
(* connects, the events of the device in the order of their pushes, none     *)
(* left out and none twice, with interrupts, connections and the logs they   *)
(* cause in any order.                                                       *)
Feed == INSTANCE EventFeed WITH
  feed <- pushed, shown <- sent, watching <- Ws!Open,
  screen <- [c \in Conns |-> [i \in DOMAIN inbox[c] |-> got[Notifier][inbox[c][i]]]]

KeepsFeedPromise == Feed!Spec

(* Events.cpp:30-41, WsInterface.cpp:83-87: the feed never stops while there *)
(* is an event left to show, so that a client that stays connected sees      *)
(* every event of the queue, whatever arrives behind it.                     *)
EveryEventShown == Feed!ShowsGoOn
=============================================================================
