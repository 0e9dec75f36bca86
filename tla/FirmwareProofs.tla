--------------------------- MODULE FirmwareProofs ---------------------------
(***************************************************************************)
(* Proofs about the loop of the main firmware, for any subscribers, logs,  *)
(* clients and interrupts: the queue is what was pushed, and the clients   *)
(* see the feed of EventFeed.                                              *)
(***************************************************************************)
EXTENDS Firmware, EventQueueProofs, FiniteSetTheorems

(* The map of /ws: its keys are the numbers below their count, so that the   *)
(* next one is fresh, and every open client is in it.  A client that has not *)
(* connected yet has received nothing.                                       *)
Map == instances["/ws"]
ClientInv ==
  /\ DOMAIN instances = Ws!Routes
  /\ \E n \in Nat : DOMAIN Map = 0..(n - 1)
  /\ status \in [Conns -> {"idle", "open", "refused", "closed"}]
  /\ \A c \in Ws!Open : \E k \in DOMAIN Map : Map[k] = c
  /\ inbox \in [Conns -> Seq(Nat)]
  /\ \A c \in Conns : status[c] = "idle" => inbox[c] = << >>

(* The notifier was called with the events it was offered, each of them was  *)
(* sent, and what a client received was sent before.                         *)
ShownInv ==
  /\ sent \in Nat /\ sent = Offered[Notifier] /\ sent <= Len(pushed)
  /\ Len(got[Notifier]) = sent
  /\ \A i \in 1..sent : got[Notifier][i] = pushed[i]
  /\ \A c \in Conns : \A i \in 1..Len(inbox[c]) : inbox[c][i] \in 1..sent

FwInv == TypeInv /\ QueueInv /\ ClientInv /\ ShownInv

(* What a client sees of the events it received. *)
Screen == [c \in Conns |-> [i \in DOMAIN inbox[c] |-> got[Notifier][inbox[c][i]]]]

-----------------------------------------------------------------------------
LEMMA SizeOfPrefix ==
  ASSUME NEW n \in Nat
  PROVE  Cardinality(0..(n - 1)) = n
<1>1. Cardinality(0..(n - 1)) = IF 0 > n - 1 THEN 0 ELSE (n - 1) - 0 + 1
  BY FS_Interval
<1> QED
  BY <1>1

(* FiniteSets is the same for the websocket interface.                       *)
LEMMA SameCardinality ==
  ASSUME NEW S
  PROVE  Ws!Cardinality(S) = Cardinality(S)
  BY DEF Cardinality, Ws!Cardinality

(* A record written by a handler of the web server disturbs nothing that is  *)
(* queued or was dispatched.                                                 *)
LEMMA HandlerRanKeeps ==
  ASSUME TypeInv, QueueInv, HandlerRan
  PROVE  /\ (TypeInv /\ QueueInv)'
         /\ UNCHANGED <<pushed, got, Offered>>
<1>1. UNCHANGED <<mem, head, tail, phase, evt, pos, dispatched, push, item, reg, logBuffer,
                  triggers, pushed, got>> /\ logsDue' \in Seq(Levels)
  <2>1. <<Info>> \in Seq(Levels)
    BY DEF Levels
  <2> QED
    BY <2>1 DEF HandlerRan, queueVars, loopVars, pushVars
<1>2. TypeInv'
  BY <1>1 DEF TypeInv, TypeOK, Shape
<1>3. QueueInv'
  BY <1>1 DEF QueueInv, InPush
<1> QED
  BY <1>1, <1>2, <1>3, OfferedUnchanged

(* The loop task either calls the notifier with the event that follows those *)
(* it was called with ...                                                    *)
LEMMA NotifierCalled ==
  ASSUME TypeInv, QueueInv, CallsNotifier, LoopTask
  PROVE  /\ head < Len(pushed) /\ Offered[Notifier] = head /\ Offered'[Notifier] = head + 1
         /\ got'[Notifier] = Append(got[Notifier], pushed[head + 1])
         /\ UNCHANGED pushed
<1>0. /\ Len(Subscribers) \in Nat /\ pos \in Nat \ {0} /\ head \in Nat /\ Notifier \in Handlers
      /\ phase = "dispatch" /\ logsDue = << >> /\ push = "none"
      /\ pos \in 1..Len(Subscribers) /\ Subscribers[pos] = Notifier
  BY LenProperties, ConstantsAssumption, FirmwareAssumption DEF TypeInv, TypeOK, CallsNotifier, Ready
<1>1. Dispatch
  BY <1>0 DEF LoopTask, AddLog, PushAddress, PushType, PushContent, PushLoad, PushStore,
     Services, WatchEmpty, WatchFront, Pop, Ready
<1>2. Matches(Notifier, evt)
  BY FirmwareAssumption DEF Matches
<1>3. /\ got' = [got EXCEPT ![Notifier] = Append(@, evt)]
      /\ pos' = pos + 1 /\ UNCHANGED <<phase, head, pushed>>
  BY <1>0, <1>1, <1>2 DEF Dispatch, queueVars
<1>4. head < Len(pushed) /\ evt = pushed[head + 1]
  BY <1>0 DEF QueueInv
<1>5. got'[Notifier] = Append(got[Notifier], evt)
  BY <1>0, <1>3 DEF TypeInv, TypeOK
<1>6. Offered[Notifier] = head
  BY <1>0 DEF Offered
<1>7. \A i \in pos'..Len(Subscribers) : Subscribers[i] # Notifier
  <2> TAKE i \in pos'..Len(Subscribers)
  <2>1. i \in 1..Len(Subscribers) /\ i # pos
    BY <1>0, <1>3
  <2> QED
    BY <1>0, <2>1, ConstantsAssumption
<1>8. Offered'[Notifier] = head + 1
  BY <1>0, <1>3, <1>7 DEF Offered
<1> QED
  BY <1>3, <1>4, <1>5, <1>6, <1>8

(* ... or does something that the notifier does not see, perhaps a push.     *)
Unseen ==
  /\ Offered'[Notifier] = Offered[Notifier]
  /\ got'[Notifier] = got[Notifier]
  /\ pushed' = pushed \/ \E e \in Events : pushed' = Append(pushed, e)

LEMMA NotifierNotCalled ==
  ASSUME TypeInv, QueueInv, ~CallsNotifier, LoopTask
  PROVE  Unseen
<1>0. /\ Len(Subscribers) \in Nat /\ pos \in Nat \ {0} /\ head \in Nat /\ Notifier \in Handlers
  BY LenProperties, ConstantsAssumption, FirmwareAssumption DEF TypeInv, TypeOK
<1>1. CASE PushStore
  <2>1. item \in Events
    BY <1>1 DEF PushStore, TypeInv, Shape
  <2>2. pushed' = Append(pushed, item) /\ UNCHANGED <<phase, pos, head, got>>
    BY <1>1 DEF PushStore, loopVars
  <2> QED
    BY <2>1, <2>2, OfferedUnchanged DEF Unseen
<1>3. CASE AddLog \/ PushAddress \/ PushType \/ PushContent \/ PushLoad
  <2>1. UNCHANGED <<phase, pos, head, got, pushed>>
    BY <1>3 DEF AddLog, PushAddress, PushType, PushContent, PushLoad, queueVars, loopVars
  <2> QED
    BY <2>1, OfferedUnchanged DEF Unseen
<1>4. CASE Services \/ WatchEmpty
  <2>1. phase # "dispatch" /\ phase' # "dispatch" /\ UNCHANGED <<head, got, pushed>>
    BY <1>4 DEF Services, WatchEmpty, Ready, queueVars
  <2> QED
    BY <2>1 DEF Unseen, Offered
<1>5. CASE WatchFront
  <2>1. phase = "watch" /\ phase' = "dispatch" /\ pos' = 1 /\ UNCHANGED <<head, got, pushed>>
    BY <1>5 DEF WatchFront, Ready, queueVars
  <2>2. Offered[Notifier] = head
    BY <1>0, <2>1 DEF Offered
  <2>3. Offered'[Notifier] = head
    BY <1>0, <2>1, ConstantsAssumption DEF Offered
  <2> QED
    BY <2>1, <2>2, <2>3 DEF Unseen
<1>6. CASE Pop
  <2>1. phase = "dispatch" /\ pos > Len(Subscribers) /\ phase' = "services" /\ head' = head + 1
        /\ UNCHANGED <<got, pushed>>
    BY <1>6 DEF Pop, Ready
  <2>2. Offered[Notifier] = head + 1
    BY <1>0, <2>1, OfferedAtLast
  <2>3. Offered'[Notifier] = head'
    BY <1>0, <2>1 DEF Offered
  <2> QED
    BY <2>1, <2>2, <2>3 DEF Unseen
<1>7. CASE Dispatch
  <2> DEFINE h == Subscribers[pos]
  <2>1. /\ pos \in 1..Len(Subscribers) /\ phase = "dispatch" /\ pos' = pos + 1
        /\ UNCHANGED <<phase, head, pushed>> /\ h # Notifier
    BY <1>0, <1>7 DEF Dispatch, Ready, CallsNotifier, queueVars
  <2>2. got'[Notifier] = got[Notifier]
    BY <1>0, <1>7, <2>1 DEF Dispatch, TypeInv, TypeOK
  <2>3. (\A i \in pos..Len(Subscribers) : Subscribers[i] # Notifier)
          <=> (\A i \in pos'..Len(Subscribers) : Subscribers[i] # Notifier)
    BY <1>0, <2>1
  <2> QED
    BY <1>0, <2>1, <2>2, <2>3 DEF Unseen, Offered
<1> QED
  BY <1>1, <1>3, <1>4, <1>5, <1>6, <1>7 DEF LoopTask

LEMMA InterruptUnseen ==
  ASSUME TypeInv, Interrupt
  PROVE  Unseen
<1>1. PinEvent(triggers) \in Events
  BY EventsAreContents DEF TypeInv, TypeOK
<1>2. pushed' = Append(pushed, PinEvent(triggers)) /\ UNCHANGED <<phase, pos, head, got>>
  BY DEF Interrupt, PinInterrupt, loopVars
<1> QED
  BY <1>1, <1>2, OfferedUnchanged DEF Unseen

-----------------------------------------------------------------------------
(* The inductive invariant holds at first ...                                *)
LEMMA InitFwInv == FwInit => FwInv
<1> SUFFICES ASSUME FwInit PROVE FwInv
  OBVIOUS
<1>1. TypeInv /\ QueueInv
  BY InitTypeInv, InitQueueInv DEF FwInit
<1>2. ClientInv
  <2>1. instances = [r \in Ws!Routes |-> << >>] /\ "/ws" \in Ws!Routes
    BY DEF FwInit, Ws!Init, Ws!Routes
  <2>2. DOMAIN Map = 0..(0 - 1)
    BY <2>1 DEF Map
  <2>3. status = [c \in Conns |-> "idle"] /\ inbox = [c \in Conns |-> << >>]
    BY DEF FwInit, Ws!Init
  <2> QED
    BY <2>1, <2>2, <2>3 DEF ClientInv, Ws!Open
<1>3. ShownInv
  <2>1. Notifier \in Handlers
    BY FirmwareAssumption
  <2>2. /\ sent = 0 /\ pushed = << >> /\ Offered[Notifier] = 0 /\ got[Notifier] = << >>
        /\ inbox = [c \in Conns |-> << >>]
    BY <2>1 DEF FwInit, Init, Ws!Init, Offered
  <2> QED
    BY <2>2 DEF ShownInv
<1> QED
  BY <1>1, <1>2, <1>3 DEF FwInv

(* ... and what neither the notifier nor a client sees keeps it.             *)
LEMMA UnseenKeeps ==
  ASSUME TypeInv, ClientInv, ShownInv, Unseen, UNCHANGED wsVars
  PROVE  (ClientInv /\ ShownInv)'
<1>1. UNCHANGED <<instances, status, inbox, sent>>
  BY DEF wsVars
<1>2. ClientInv'
  BY <1>1 DEF ClientInv, Map, Ws!Open
<1>3. Len(pushed) <= Len(pushed') /\ \A i \in 1..Len(pushed) : pushed'[i] = pushed[i]
  BY DEF Unseen, TypeInv, TypeOK
<1>4. Len(pushed) \in Nat /\ Len(pushed') \in Nat
  BY DEF Unseen, TypeInv, TypeOK
<1>5. ShownInv'
  <2>1. sent' \in Nat /\ sent' = Offered'[Notifier] /\ sent' <= Len(pushed')
    BY <1>1, <1>3, <1>4 DEF ShownInv, Unseen
  <2>2. Len(got'[Notifier]) = sent' /\ \A i \in 1..sent' : got'[Notifier][i] = pushed'[i]
    BY <1>1, <1>3, <1>4 DEF ShownInv, Unseen
  <2>3. \A c \in Conns : \A i \in 1..Len(inbox'[c]) : inbox'[c][i] \in 1..sent'
    BY <1>1 DEF ShownInv
  <2> QED
    BY <2>1, <2>2, <2>3 DEF ShownInv
<1> QED
  BY <1>2, <1>5

(* A call of the notifier reaches every client that is connected.            *)
LEMMA OnEventSends ==
  ASSUME ClientInv, Ws!NotifyAll
  PROVE  /\ sent' = sent + 1 /\ UNCHANGED <<instances, status>>
         /\ inbox' = [c \in Conns |-> IF c \in Ws!Open THEN Append(inbox[c], sent + 1) ELSE inbox[c]]
<1> DEFINE through == {instances["/ws"][k] : k \in DOMAIN instances["/ws"]}
<1>1. /\ sent' = sent + 1 /\ UNCHANGED <<instances, status>>
      /\ inbox' = [c \in Conns |-> IF c \in through \cap Ws!Open
                                       THEN Append(inbox[c], sent') ELSE inbox[c]]
  BY DEF Ws!NotifyAll, Ws!SendThrough
<1>2. \A c \in Ws!Open : c \in through
  BY DEF ClientInv, Map
<1> QED
  BY <1>1, <1>2

(* The state that the clients see of the event queue. *)
QueueKept == UNCHANGED <<pushed, got, Offered, inbox, sent>>

LEMMA QueueKeptShown ==
  ASSUME ShownInv, QueueKept
  PROVE  ShownInv'
<1>1. UNCHANGED <<pushed, got, inbox, sent>> /\ Offered'[Notifier] = Offered[Notifier]
  BY DEF QueueKept
<1> QED
  BY <1>1 DEF ShownInv

(* A client that connects is found in the map, under a key nobody has had.   *)
LEMMA ConnectKeeps ==
  ASSUME ClientInv, ShownInv, NEW c \in Conns, Ws!OnCreate(c), UNCHANGED <<pushed, got, Offered>>
  PROVE  (ClientInv /\ ShownInv)'
<1>0. "/ws" \in Ws!Routes /\ [d \in Conns |-> "/ws"][c] = "/ws"
  BY DEF Ws!Routes
<1>1. CASE Ws!RejectClient(c)
  <2>1. /\ status' = [status EXCEPT ![c] = "refused"] /\ status[c] = "idle"
        /\ UNCHANGED <<instances, inbox, sent>>
    BY <1>1 DEF Ws!RejectClient
  <2>2. ClientInv'
    BY <2>1 DEF ClientInv, Map, Ws!Open
  <2> QED
    BY <2>1, <2>2, QueueKeptShown DEF QueueKept
<1>2. CASE Ws!InstanceOnClientConnect(c)
  <2>1. PICK n \in Nat : DOMAIN Map = 0..(n - 1)
    BY DEF ClientInv
  <2>2. Ws!Size("/ws") = n
    BY <2>1, SizeOfPrefix, SameCardinality DEF Ws!Size, Map
  <2>3. /\ status' = [status EXCEPT ![c] = "open"] /\ status[c] = "idle"
        /\ instances' = [instances EXCEPT !["/ws"] = Ws!Insert(@, n, c)]
        /\ UNCHANGED <<inbox, sent>>
    BY <1>0, <1>2, <2>2 DEF Ws!InstanceOnClientConnect
  <2>4. /\ DOMAIN instances' = Ws!Routes
        /\ Map' = [k \in DOMAIN Map \cup {n} |-> IF k \in DOMAIN Map THEN Map[k] ELSE c]
    BY <1>0, <2>3 DEF ClientInv, Map, Ws!Insert
  <2>5. DOMAIN Map \cup {n} = 0..((n + 1) - 1) /\ n \notin DOMAIN Map
    BY <2>1
  <2>6. \E m \in Nat : DOMAIN Map' = 0..(m - 1)
    BY <2>4, <2>5
  <2>7. Map'[n] = c /\ n \in DOMAIN Map' /\ \A k \in DOMAIN Map : k \in DOMAIN Map' /\ Map'[k] = Map[k]
    BY <2>4, <2>5
  <2>8. Ws!Open' = Ws!Open \cup {c}
    BY <2>3 DEF ClientInv, Ws!Open
  <2>9. \A d \in Ws!Open' : \E k \in DOMAIN Map' : Map'[k] = d
    BY <2>7, <2>8 DEF ClientInv
  <2>10. /\ status' \in [Conns -> {"idle", "open", "refused", "closed"}]
         /\ \A d \in Conns : status'[d] = "idle" => status[d] = "idle"
    BY <2>3 DEF ClientInv
  <2>11. ClientInv'
    BY <2>3, <2>4, <2>6, <2>9, <2>10 DEF ClientInv
  <2> QED
    BY <2>3, <2>11, QueueKeptShown DEF QueueKept
<1> QED
  BY <1>1, <1>2 DEF Ws!OnCreate

(* A client that leaves stays in the map; nothing is sent to it any more.    *)
LEMMA DisconnectKeeps ==
  ASSUME ClientInv, ShownInv, NEW c \in Conns, Ws!OnClose(c), UNCHANGED <<pushed, got, Offered>>
  PROVE  (ClientInv /\ ShownInv)'
<1>1. /\ status' = [status EXCEPT ![c] = "closed"] /\ status[c] = "open"
      /\ UNCHANGED <<instances, inbox, sent>>
  BY DEF Ws!OnClose
<1>2. ClientInv'
  BY <1>1 DEF ClientInv, Map, Ws!Open
<1> QED
  BY <1>1, <1>2, QueueKeptShown DEF QueueKept

LEMMA OnEventKeeps ==
  ASSUME TypeInv, QueueInv, ClientInv, ShownInv, OnEvent
  PROVE  (ClientInv /\ ShownInv)'
<1>1. /\ head < Len(pushed) /\ Offered[Notifier] = head /\ Offered'[Notifier] = head + 1
      /\ got'[Notifier] = Append(got[Notifier], pushed[head + 1])
      /\ pushed' = pushed
  BY NotifierCalled DEF OnEvent
<1>2. /\ sent' = sent + 1 /\ UNCHANGED <<instances, status>>
      /\ inbox' = [c \in Conns |-> IF c \in Ws!Open THEN Append(inbox[c], sent + 1) ELSE inbox[c]]
  BY OnEventSends DEF OnEvent
<1>3. /\ head \in Nat /\ Len(pushed) \in Nat /\ sent = head /\ Notifier \in Handlers
      /\ got[Notifier] \in Seq(SlotContents) /\ inbox \in [Conns -> Seq(Nat)]
  BY <1>1, FirmwareAssumption DEF TypeInv, TypeOK, ShownInv, ClientInv
<1>4. ClientInv'
  <2>1. inbox' \in [Conns -> Seq(Nat)]
    BY <1>2, <1>3
  <2>2. \A c \in Conns : status'[c] = "idle" => inbox'[c] = << >>
    BY <1>2 DEF ClientInv, Ws!Open
  <2> QED
    BY <1>2, <2>1, <2>2 DEF ClientInv, Map, Ws!Open
<1>5. ShownInv'
  <2>1. sent' \in Nat /\ sent' = Offered'[Notifier] /\ sent' <= Len(pushed')
    BY <1>1, <1>2, <1>3
  <2>2. Len(got'[Notifier]) = sent' /\ \A i \in 1..sent' : got'[Notifier][i] = pushed'[i]
    BY <1>1, <1>2, <1>3 DEF ShownInv
  <2>3. \A c \in Conns : \A i \in 1..Len(inbox'[c]) : inbox'[c][i] \in 1..sent'
    BY <1>2, <1>3 DEF ShownInv
  <2> QED
    BY <2>1, <2>2, <2>3 DEF ShownInv
<1> QED
  BY <1>4, <1>5

LEMMA NextFwInv == FwInv /\ [FwNext]_fwVars => FwInv'
<1> SUFFICES ASSUME FwInv, [FwNext]_fwVars PROVE FwInv'
  OBVIOUS
<1> USE DEF FwInv
<1>1. ASSUME LoopTask \/ (~InPush /\ Interrupt) \/ UNCHANGED vars
      PROVE  (TypeInv /\ QueueInv)'
  BY <1>1, QuietNextIsNext, NextTypeInv, NextQueueInv DEF QuietNext
<1>2. CASE OnEvent
  BY <1>1, <1>2, OnEventKeeps DEF OnEvent
<1>3. CASE RestOfLoop
  BY <1>1, <1>3, NotifierNotCalled, UnseenKeeps DEF RestOfLoop
<1>4. ASSUME NEW c \in Conns, Connect(c)
      PROVE  FwInv'
  BY <1>4, HandlerRanKeeps, ConnectKeeps DEF Connect
<1>5. ASSUME NEW c \in Conns, Disconnect(c)
      PROVE  FwInv'
  BY <1>5, HandlerRanKeeps, DisconnectKeeps DEF Disconnect
<1>6. CASE ~InPush /\ Interrupt /\ UNCHANGED wsVars
  BY <1>1, <1>6, InterruptUnseen, UnseenKeeps
<1>7. CASE UNCHANGED fwVars
  <2>1. UNCHANGED vars /\ UNCHANGED wsVars
    BY <1>7 DEF fwVars
  <2>2. UNCHANGED <<phase, pos, head, got, pushed>>
    BY <2>1 DEF vars, queueVars, loopVars
  <2>3. Unseen
    BY <2>2, OfferedUnchanged DEF Unseen
  <2> QED
    BY <1>1, <2>1, <2>3, UnseenKeeps
<1> QED
  BY <1>2, <1>3, <1>4, <1>5, <1>6, <1>7 DEF FwNext, FwLoop

LEMMA FwInvariant == FwInit /\ [][FwNext]_fwVars => []FwInv
  BY InitFwInv, NextFwInv, PTL

(* Whatever clients do, the queue is what was pushed: the firmware pushes    *)
(* nothing inside a push of the loop task.                                   *)
THEOREM FirmwareQueueIsPushed == FwSpec => []QueueIsPushed
<1>1. FwInv => QueueIsPushed
  BY DEF FwInv, QueueInv, QueueIsPushed
<1> QED
  BY FwInvariant, <1>1, PTL DEF FwSpec

(* Nor does it take an event from a subscriber: each gets every event it     *)
(* listens for, once and in order, with clients coming and going.            *)
THEOREM FirmwareKeepsBusPromise == FwSpec => KeepsBusPromise
<1>1. FwInit => Bus!Init
  BY DEF FwInit, Init, Bus!Init, Offered
<1>2. FwInv /\ FwInv' /\ [FwNext]_fwVars => [Bus!Next]_(Bus!busVars)
  <2> SUFFICES ASSUME FwInv, FwInv', [FwNext]_fwVars PROVE [Bus!Next]_(Bus!busVars)
    OBVIOUS
  <2>1. TypeInv /\ QueueInv /\ QueueInv'
    BY DEF FwInv
  <2>2. CASE [QuietNext]_vars
    BY <2>1, <2>2, StepKeepsPromise
  <2>3. CASE HandlerRan
    BY <2>1, <2>3, HandlerRanKeeps DEF Bus!busVars
  <2> QED
    BY <2>2, <2>3 DEF FwNext, FwLoop, OnEvent, RestOfLoop, Connect, Disconnect, QuietNext, fwVars
<1> QED
  BY FwInvariant, <1>1, <1>2, PTL DEF FwSpec, KeepsBusPromise, Bus!Spec

(* LogStore.cpp:14-20: the records of clients that come and go are notified  *)
(* like all others, once each and in the order they were written.            *)
THEOREM FirmwareLogsAreNotified == FwSpec => []LogsNotified
<1>1. FwInit => LogInv
  BY InitLogInv DEF FwInit
<1>2. FwInv /\ LogInv /\ [FwNext]_fwVars => LogInv'
  <2> SUFFICES ASSUME FwInv, LogInv, [FwNext]_fwVars PROVE LogInv'
    OBVIOUS
  <2>1. TypeInv
    BY DEF FwInv
  <2>2. CASE [Next]_vars
    BY <2>1, <2>2, NextLogInv
  <2>3. CASE HandlerRan
    <3>1. UNCHANGED <<logBuffer, pushed, item, push>>
      BY <2>3 DEF HandlerRan, pushVars
    <3> QED
      BY <3>1, LogInvStays DEF InfoIds
  <2> QED
    BY <2>2, <2>3 DEF FwNext, FwLoop, OnEvent, RestOfLoop, Connect, Disconnect, Next, fwVars
<1>3. FwInv /\ LogInv => LogsNotified
  BY NotifiedMeansInOrder DEF FwInv
<1> QED
  BY FwInvariant, <1>1, <1>2, <1>3, PTL DEF FwSpec

-----------------------------------------------------------------------------
(* What EventFeed is told of a step of the firmware.                         *)

(* An event that is pushed is published; nobody sees it yet.                 *)
LEMMA UnseenIsPublish ==
  ASSUME FwInv, Unseen, UNCHANGED wsVars
  PROVE  [Feed!Next]_(Feed!feedVars)
<1>1. UNCHANGED <<status, inbox, sent>> /\ UNCHANGED <<Ws!Open, Screen>>
  BY DEF wsVars, Ws!Open, Screen, Unseen
<1>2. CASE pushed' = pushed
  BY <1>1, <1>2 DEF Feed!feedVars, Screen
<1>3. ASSUME NEW e \in Events, pushed' = Append(pushed, e)
      PROVE  Feed!Publish
  <2>1. pushed \in Seq(Events)
    BY DEF FwInv, TypeInv, TypeOK
  <2>2. Len(pushed') = Len(pushed) + 1 /\ SubSeq(pushed', 1, Len(pushed)) = pushed
    BY <1>3, <2>1
  <2> QED
    BY <1>1, <2>2 DEF Feed!Publish, Screen
<1> QED
  BY <1>2, <1>3 DEF Unseen, Feed!Next

LEMMA ConnectIsJoin ==
  ASSUME FwInv, NEW c \in Conns, Ws!OnCreate(c), UNCHANGED <<pushed, got>>
  PROVE  [Feed!Next]_(Feed!feedVars)
<1>1. UNCHANGED <<inbox, sent>> /\ UNCHANGED Screen
  BY DEF Ws!OnCreate, Ws!InstanceOnClientConnect, Ws!RejectClient, Screen
<1>2. CASE Ws!RejectClient(c)
  <2>1. Ws!Open' = Ws!Open
    BY <1>2 DEF FwInv, ClientInv, Ws!Open, Ws!RejectClient
  <2> QED
    BY <1>1, <2>1 DEF Feed!feedVars, Screen
<1>3. CASE Ws!InstanceOnClientConnect(c)
  <2>1. status[c] = "idle" /\ status' = [status EXCEPT ![c] = "open"]
    BY <1>3 DEF Ws!InstanceOnClientConnect
  <2>2. Ws!Open' = Ws!Open \cup {c} /\ c \notin Ws!Open
    BY <2>1 DEF FwInv, ClientInv, Ws!Open
  <2>3. Screen[c] = << >>
    BY <2>1 DEF FwInv, ClientInv, Screen
  <2>4. Feed!Join(c)
    BY <1>1, <2>2, <2>3 DEF Feed!Join, Screen
  <2> QED
    BY <2>4 DEF Feed!Next
<1> QED
  BY <1>2, <1>3 DEF Ws!OnCreate

LEMMA DisconnectIsLeave ==
  ASSUME FwInv, NEW c \in Conns, Ws!OnClose(c), UNCHANGED <<pushed, got>>
  PROVE  [Feed!Next]_(Feed!feedVars)
<1>1. UNCHANGED <<inbox, sent>> /\ UNCHANGED Screen
  BY DEF Ws!OnClose, Screen
<1>2. Ws!Open' = Ws!Open \ {c} /\ c \in Ws!Open
  BY DEF FwInv, ClientInv, Ws!Open, Ws!OnClose
<1>3. Feed!Leave(c)
  BY <1>1, <1>2 DEF Feed!Leave, Screen
<1> QED
  BY <1>3 DEF Feed!Next

LEMMA OnEventIsShow ==
  ASSUME FwInv, OnEvent
  PROVE  Feed!Show
<1>1. /\ head < Len(pushed) /\ Offered[Notifier] = head
      /\ got'[Notifier] = Append(got[Notifier], pushed[head + 1])
      /\ pushed' = pushed
  BY NotifierCalled DEF OnEvent, FwInv
<1>2. /\ sent' = sent + 1 /\ UNCHANGED <<instances, status>>
      /\ inbox' = [c \in Conns |-> IF c \in Ws!Open THEN Append(inbox[c], sent + 1) ELSE inbox[c]]
  BY OnEventSends DEF OnEvent, FwInv
<1>3. /\ sent \in Nat /\ sent = head /\ Notifier \in Handlers
      /\ got[Notifier] \in Seq(SlotContents) /\ inbox \in [Conns -> Seq(Nat)]
      /\ Len(got[Notifier]) = sent
      /\ \A c \in Conns : \A i \in 1..Len(inbox[c]) : inbox[c][i] \in 1..sent
  BY <1>1, FirmwareAssumption DEF FwInv, TypeInv, TypeOK, ShownInv, ClientInv
<1>4. /\ \A n \in 1..sent : got'[Notifier][n] = got[Notifier][n]
      /\ got'[Notifier][sent + 1] = pushed'[sent']
  BY <1>1, <1>2, <1>3
<1>5. ASSUME NEW c \in Conns
      PROVE  Screen'[c] = IF c \in Ws!Open THEN Append(Screen[c], pushed'[sent']) ELSE Screen[c]
  <2>1. /\ inbox[c] \in Seq(Nat) /\ Len(inbox[c]) \in Nat /\ DOMAIN inbox[c] = 1..Len(inbox[c])
        /\ \A i \in 1..Len(inbox[c]) : got'[Notifier][inbox[c][i]] = got[Notifier][inbox[c][i]]
    BY <1>3, <1>4
  <2>2. CASE c \notin Ws!Open
    BY <1>2, <2>1, <2>2 DEF Screen
  <2>3. CASE c \in Ws!Open
    <3> DEFINE n == Len(inbox[c])
               s == [i \in 1..n |-> got[Notifier][inbox[c][i]]]
    <3>1. inbox'[c] = Append(inbox[c], sent + 1)
      BY <1>2, <2>3
    <3>2. DOMAIN inbox'[c] = 1..(n + 1) /\ inbox'[c][n + 1] = sent + 1
          /\ \A i \in 1..n : inbox'[c][i] = inbox[c][i]
      BY <1>3, <2>1, <3>1
    <3>3. Screen'[c] = [i \in 1..(n + 1) |-> got'[Notifier][inbox'[c][i]]]
      BY <3>2 DEF Screen
    <3>4. Screen[c] = s
      BY <2>1 DEF Screen
    <3>5. \A i \in 1..(n + 1) :
            got'[Notifier][inbox'[c][i]] = IF i = n + 1 THEN pushed'[sent'] ELSE s[i]
      BY <1>4, <2>1, <3>2
    <3>6. n \in Nat
      BY <2>1
    <3> DEFINE S == {s[i] : i \in 1..n}
    <3>7. s \in Seq(S) /\ Len(s) = n
      BY <3>6
    <3>8. Append(s, pushed'[sent']) = [i \in 1..(n + 1) |-> IF i = n + 1 THEN pushed'[sent'] ELSE s[i]]
      BY <3>6, <3>7
    <3>9. Screen'[c] = [i \in 1..(n + 1) |-> IF i = n + 1 THEN pushed'[sent'] ELSE s[i]]
      <4> HIDE DEF s, n
      <4> QED
        BY <3>3, <3>5, Zenon
    <3>10. Screen'[c] = Append(s, pushed'[sent'])
      <4> HIDE DEF s, n
      <4> QED
        BY <3>8, <3>9
    <3> QED
      BY <2>3, <3>4, <3>10
  <2> QED
    BY <2>2, <2>3
<1>6. Screen' = [c \in Conns |-> IF c \in Ws!Open THEN Append(Screen[c], pushed'[sent']) ELSE Screen[c]]
  <2>1. Screen' = [c \in Conns |-> Screen'[c]]
    BY DEF Screen
  <2> QED
    BY <1>5, <2>1
<1>7. sent < Len(pushed) /\ UNCHANGED Ws!Open
  BY <1>1, <1>2, <1>3 DEF Ws!Open
<1> QED
  BY <1>1, <1>2, <1>6, <1>7 DEF Feed!Show, Screen

(* Each step of the firmware is a step of the feed, or none.                 *)
LEMMA StepKeepsFeed == FwInv /\ [FwNext]_fwVars => [Feed!Next]_(Feed!feedVars)
<1> SUFFICES ASSUME FwInv, [FwNext]_fwVars PROVE [Feed!Next]_(Feed!feedVars)
  OBVIOUS
<1>0. TypeInv /\ QueueInv
  BY DEF FwInv
<1>1. CASE OnEvent
  BY <1>1, OnEventIsShow DEF Feed!Next
<1>2. CASE RestOfLoop
  BY <1>0, <1>2, NotifierNotCalled, UnseenIsPublish DEF RestOfLoop
<1>3. ASSUME NEW c \in Conns, Connect(c)
      PROVE  [Feed!Next]_(Feed!feedVars)
  BY <1>0, <1>3, HandlerRanKeeps, ConnectIsJoin DEF Connect
<1>4. ASSUME NEW c \in Conns, Disconnect(c)
      PROVE  [Feed!Next]_(Feed!feedVars)
  BY <1>0, <1>4, HandlerRanKeeps, DisconnectIsLeave DEF Disconnect
<1>5. CASE ~InPush /\ Interrupt /\ UNCHANGED wsVars
  BY <1>0, <1>5, InterruptUnseen, UnseenIsPublish
<1>6. CASE UNCHANGED fwVars
  <2>1. UNCHANGED <<pushed, sent, status, inbox, got>>
    BY <1>6 DEF fwVars, vars, wsVars
  <2> QED
    BY <2>1 DEF Feed!feedVars, Ws!Open
<1> QED
  BY <1>1, <1>2, <1>3, <1>4, <1>5, <1>6 DEF FwNext, FwLoop

(* EventMessageNotifications.h:48-49: every client sees, from its connection *)
(* to its end, the events of the device in the order of their pushes, none   *)
(* left out and none twice.                                                  *)
THEOREM FirmwareKeepsFeedPromise == FwSpec => KeepsFeedPromise
<1>1. FwInit => Feed!Init
  <2>1. FwInit => Ws!Open = {}
    BY DEF FwInit, Ws!Init, Ws!Open
  <2>2. FwInit => Screen = [c \in Conns |-> << >>]
    BY DEF FwInit, Ws!Init, Screen
  <2> QED
    BY <2>1, <2>2 DEF FwInit, Init, Ws!Init, Feed!Init, Screen
<1> QED
  BY FwInvariant, StepKeepsFeed, <1>1, PTL DEF FwSpec, KeepsFeedPromise, Feed!Spec
=============================================================================
