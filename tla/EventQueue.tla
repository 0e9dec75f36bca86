----------------------------- MODULE EventQueue -----------------------------
(***************************************************************************)
(* The event queue of one device (Events.cpp), the log store that feeds it *)
(* (LogStore.cpp) and the pin interrupts that feed it too (GpioPin.cpp).   *)
(*                                                                         *)
(* Two contexts share EventQueue::local, a std::queue with no lock:        *)
(*   - the loop task, which runs the services, writes logs, and dispatches *)
(*     one event per pass of loop();                                       *)
(*   - the pin interrupt handler, which preempts the loop task on the same *)
(*     core, pushes one event and returns.  It runs to completion.         *)
(*                                                                         *)
(* std::queue::push of the loop task takes several steps: take the address *)
(* of the free slot from the finish pointer, copy the two parts of the     *)
(* event there, load the finish pointer, store it back advanced.           *)
(*                                                                         *)
(* Spec lets an interrupt land anywhere, as the hardware does: pushes may   *)
(* then overlap, and the queue reaches a slot that no constructor ran on.  *)
(* QuietSpec is Spec without the interrupts that land inside the loop      *)
(* task's own push, and without what only they can lead to.                *)
(*                                                                         *)
(* The storage is one array here.  An overlap at the end of a node of the  *)
(* std::deque would corrupt its map of nodes too, so nothing is claimed of *)
(* the content of a queue whose pushes have overlapped.                    *)
(***************************************************************************)
EXTENDS Integers, Sequences

CONSTANTS
  Handlers,      \* the EventHandler instances
  Subscribers,   \* EventHandler::subscribers, in construction order
  Listens,       \* Listens[h]: the evtType h was constructed with
  HandlerLogs,   \* HandlerLogs[h]: the log sequences onEvent of h may write
  ServiceLogs,   \* the log sequences the rest of a loop pass may write
  MaxLogs,       \* bound: the services write no log past this many records
  MaxTriggers    \* bound: how many pin interrupts occur

(* Log levels: info() is level 0 and notified, dbg() is level 1 and bypasses. *)
Info == 0
Dbg == 1
Levels == {Info, Dbg}

(* The EventHandler constructor pushes each handler, once, on subscribers. *)
ASSUME ConstantsAssumption ==
  /\ Subscribers \in Seq(Handlers)
  /\ \A h \in Handlers : \E i \in 1..Len(Subscribers) : Subscribers[i] = h
  /\ \A i, j \in 1..Len(Subscribers) : Subscribers[i] = Subscribers[j] => i = j
  /\ Listens \in [Handlers -> STRING]
  /\ \A h \in Handlers : HandlerLogs[h] \subseteq Seq(Levels)
  /\ ServiceLogs \subseteq Seq(Levels)
  /\ MaxLogs \in Nat
  /\ MaxTriggers \in Nat

VARIABLES
  (* EventQueue::local: mem holds every slot the queue ever reached, slot    *)
  (* tail+1 being the free one; head events were popped.                     *)
  mem, head, tail,
  (* the loop task: where it is, the event it dispatches, the subscriber     *)
  (* whose turn it is, and whether some subscriber took the event            *)
  phase, evt, pos, dispatched,
  (* the push in progress: its step, its argument, and the finish pointer as *)
  (* the push last loaded it                                                 *)
  push, item, reg,
  (* logs the running code has still to write, and LogStore::logBuffer       *)
  logsDue, logBuffer,
  (* history: interrupts so far, completed pushes, events each handler got   *)
  triggers, pushed, got

queueVars == <<mem, head, tail>>
loopVars == <<phase, evt, pos, dispatched>>
pushVars == <<push, item, reg>>
logVars == <<logsDue, logBuffer>>
vars == <<queueVars, loopVars, pushVars, logVars, triggers, pushed, got>>

(* The content of an event tells which one it is: the id of the log record, *)
(* or the rank of the interrupt.  Raw is a slot no constructor has run on;   *)
(* what it holds is chosen when it is read.                                  *)
UntypedLogEvent(id) == [type |-> "", content |-> <<"log", id>>]
LogEvent(id) == [type |-> "LOG", content |-> <<"log", id>>]
PinEvent(n) == [type |-> "PIN_TRIGGER", content |-> <<"pin", n>>]
Raw == [type |-> "raw", content |-> <<"raw", 0>>]
Contents == {"log", "pin"} \X Nat
Events == [type : {"LOG", "PIN_TRIGGER"}, content : Contents]
SlotContents == [type : {"LOG", "PIN_TRIGGER", "raw"}, content : Contents \cup {<<"raw", 0>>}]

Matches(h, e) == Listens[h] = "*" \/ Listens[h] = e.type

TypeOK ==
  /\ mem \in Seq(SlotContents)
  /\ head \in Nat
  /\ tail \in Nat
  /\ phase \in {"services", "watch", "dispatch", "panic"}
  /\ evt \in SlotContents
  /\ pos \in Nat \ {0}
  /\ dispatched \in BOOLEAN
  /\ push \in {"none", "address", "type", "content", "load", "store"}
  /\ item \in SlotContents
  /\ reg \in Nat
  /\ logsDue \in Seq(Levels)
  /\ logBuffer \in Seq(Levels)
  /\ triggers \in Nat
  /\ pushed \in Seq(Events)
  /\ got \in [Handlers -> Seq(SlotContents)]

Init ==
  /\ mem = <<Raw>> /\ head = 0 /\ tail = 0
  /\ phase = "services" /\ evt = Raw /\ pos = 1 /\ dispatched = FALSE
  /\ push = "none" /\ item = Raw /\ reg = 0
  /\ logsDue = << >> /\ logBuffer = << >>
  /\ triggers = 0 /\ pushed = << >> /\ got = [h \in Handlers |-> << >>]

(* Nothing of the loop task's straight-line code is pending. *)
Ready(p) == phase = p /\ logsDue = << >> /\ push = "none"

(* The slots m with a free one past a new tail n, unconstructed as yet. *)
Reach(m, n) == IF Len(m) > n THEN m ELSE Append(m, Raw)

-----------------------------------------------------------------------------
(* Seeded fault: every record is notified, bypass or not. *)
AddLogNoBypass ==
  /\ logsDue # << >> /\ push = "none"
  /\ logBuffer' = Append(logBuffer, Head(logsDue))
  /\ logsDue' = Tail(logsDue)
  /\ push' = "address" /\ item' = LogEvent(Len(logBuffer))
  /\ UNCHANGED <<queueVars, loopVars, reg, triggers, pushed, got>>

(* LogStore::add: the record is stored, and an info() record is pushed as an *)
(* event; a dbg() record bypasses the queue.                                 *)
AddLog ==
  /\ logsDue # << >> /\ push = "none"
  /\ logBuffer' = Append(logBuffer, Head(logsDue))
  /\ logsDue' = Tail(logsDue)
  /\ IF Head(logsDue) = Info
     THEN push' = "address" /\ item' = LogEvent(Len(logBuffer))
     ELSE UNCHANGED <<push, item>>
  /\ UNCHANGED <<queueVars, loopVars, reg, triggers, pushed, got>>

(* The steps of EventQueue::local.push in the loop task. *)
PushAddress ==
  /\ push = "address"
  /\ reg' = tail
  /\ push' = "type"
  /\ UNCHANGED <<queueVars, loopVars, item, logVars, triggers, pushed, got>>

PushType ==
  /\ push = "type"
  /\ mem' = [mem EXCEPT ![reg + 1].type = item.type]
  /\ push' = "content"
  /\ UNCHANGED <<head, tail, loopVars, item, reg, logVars, triggers, pushed, got>>

(* Seeded fault: the copy of an event forgets its content. *)
PushNoContent ==
  /\ push = "content"
  /\ push' = "load"
  /\ UNCHANGED <<queueVars, loopVars, item, reg, logVars, triggers, pushed, got>>

PushContent ==
  /\ push = "content"
  /\ mem' = [mem EXCEPT ![reg + 1].content = item.content]
  /\ push' = "load"
  /\ UNCHANGED <<head, tail, loopVars, item, reg, logVars, triggers, pushed, got>>

PushLoad ==
  /\ push = "load"
  /\ reg' = tail
  /\ push' = "store"
  /\ UNCHANGED <<queueVars, loopVars, item, logVars, triggers, pushed, got>>

PushStore ==
  /\ push = "store"
  /\ tail' = reg + 1
  /\ mem' = Reach(mem, tail')
  /\ push' = "none"
  /\ pushed' = Append(pushed, item)
  /\ UNCHANGED <<head, loopVars, item, reg, logVars, triggers, got>>

(* onPinStateChange: the whole push happens while the loop task is stopped. *)
PinInterrupt ==
  /\ triggers < MaxTriggers
  /\ triggers' = triggers + 1
  /\ mem' = Reach([mem EXCEPT ![tail + 1] = PinEvent(triggers)], tail + 1)
  /\ tail' = tail + 1
  /\ pushed' = Append(pushed, PinEvent(triggers))
  /\ UNCHANGED <<head, loopVars, pushVars, logVars, got>>

-----------------------------------------------------------------------------
(* The rest of a pass of loop(): the web server and the radio, which write   *)
(* logs.                                                                     *)
Services ==
  /\ Ready("services")
  /\ \E ls \in ServiceLogs :
       /\ ls = << >> \/ Len(logBuffer) + Len(ls) <= MaxLogs
       /\ logsDue' = ls
  /\ phase' = "watch"
  /\ UNCHANGED <<queueVars, evt, pos, dispatched, pushVars, logBuffer, triggers, pushed, got>>

(* EventQueue::local.size(), and a seeded fault that is off by one. *)
SizeLessOne == tail - head - 1
Size == tail - head

(* watchEvents with nothing queued. *)
WatchEmpty ==
  /\ Ready("watch")
  /\ Size <= 0
  /\ phase' = "services"
  /\ UNCHANGED <<queueVars, evt, pos, dispatched, pushVars, logVars, triggers, pushed, got>>

(* What front() may read: the event that was constructed there or, where     *)
(* none was, meaningless memory or an event that was popped and destroyed    *)
(* before its node of the deque was freed and taken again.                   *)
FrontReads ==
  IF mem[head + 1] = Raw THEN {Raw} \cup {mem[k] : k \in 1..head} ELSE {mem[head + 1]}

(* watchEvents copies the front event and enters dispatchEvt. *)
WatchFront ==
  /\ Ready("watch")
  /\ Size > 0
  /\ evt' \in FrontReads
  /\ phase' = "dispatch" /\ pos' = 1 /\ dispatched' = FALSE
  /\ UNCHANGED <<queueVars, pushVars, logVars, triggers, pushed, got>>

(* Copying, or destroying, the strings of a slot that holds none may fault   *)
(* instead, which stops the program.                                         *)
RawFault ==
  /\ Ready("watch") \/ (Ready("dispatch") /\ pos > Len(Subscribers))
  /\ Size > 0
  /\ mem[head + 1] = Raw
  /\ phase' = "panic"
  /\ UNCHANGED <<queueVars, evt, pos, dispatched, pushVars, logVars, triggers, pushed, got>>

(* Seeded fault: the dispatch ends with the first subscriber that is called. *)
DispatchFirst ==
  /\ Ready("dispatch")
  /\ pos <= Len(Subscribers)
  /\ LET h == Subscribers[pos]
     IN  IF Matches(h, evt)
         THEN /\ got' = [got EXCEPT ![h] = Append(@, evt)]
              /\ dispatched' = TRUE
              /\ logsDue' \in HandlerLogs[h]
              /\ pos' = Len(Subscribers) + 1
         ELSE pos' = pos + 1 /\ UNCHANGED <<got, dispatched, logsDue>>
  /\ UNCHANGED <<queueVars, phase, evt, pushVars, logBuffer, triggers, pushed>>

(* One iteration of the loop of dispatchEvt: the subscriber whose turn it is *)
(* is called when it listens for the event; onEvent may write logs.          *)
Dispatch ==
  /\ Ready("dispatch")
  /\ pos <= Len(Subscribers)
  /\ LET h == Subscribers[pos]
     IN  IF Matches(h, evt)
         THEN /\ got' = [got EXCEPT ![h] = Append(@, evt)]
              /\ dispatched' = TRUE
              /\ logsDue' \in HandlerLogs[h]
         ELSE UNCHANGED <<got, dispatched, logsDue>>
  /\ pos' = pos + 1
  /\ UNCHANGED <<queueVars, phase, evt, pushVars, logBuffer, triggers, pushed>>

(* The end of watchEvents: the event is popped whether or not somebody took  *)
(* it; an event nobody took only leaves a dbg() record.                      *)
Pop ==
  /\ Ready("dispatch")
  /\ pos > Len(Subscribers)
  /\ logBuffer' = IF dispatched THEN logBuffer ELSE Append(logBuffer, Dbg)
  /\ head' = head + 1
  /\ phase' = "services"
  /\ UNCHANGED <<mem, tail, evt, pos, dispatched, pushVars, logsDue, triggers, pushed, got>>

-----------------------------------------------------------------------------
LoopTask ==
  \/ AddLog \/ PushAddress \/ PushType \/ PushContent \/ PushLoad \/ PushStore
  \/ Services \/ WatchEmpty \/ WatchFront \/ Dispatch \/ Pop

Interrupt == phase # "panic" /\ PinInterrupt

Next == LoopTask \/ RawFault \/ Interrupt

(* The instants of the loop task's push from its first read of the finish    *)
(* pointer to its last write of it.                                          *)
InPush == push \in {"type", "content", "load", "store"}

QuietNext == LoopTask \/ (~InPush /\ Interrupt)

Spec == Init /\ [][Next]_vars

QuietSpec == Init /\ [][QuietNext]_vars

-----------------------------------------------------------------------------
(* No event is lost, altered or reordered while it is queued: the slots of   *)
(* EventQueue::local are the pushed events, in the order of the pushes.      *)
QueueIsPushed ==
  /\ tail = Len(pushed)
  /\ \A i \in 1..tail : mem[i] = pushed[i]

(* The number of events subscriber h was offered: those popped, and the one  *)
(* being dispatched when the loop of dispatchEvt is past every place of h.   *)
Offered ==
  [h \in Handlers |->
     IF phase = "dispatch" /\ \A i \in pos..Len(Subscribers) : Subscribers[i] # h
     THEN head + 1 ELSE head]

(* The queue keeps the promise of EventBus: each subscriber is called with   *)
(* every pushed event it listens for, exactly once and in push order.        *)
Bus == INSTANCE EventBus WITH cursor <- Offered

KeepsBusPromise == Bus!Spec

(* LogStore.cpp:17, "each time new log is added notify all log consumers     *)
(* through event": the LOG events are those of info() records, one each and  *)
(* in record order, and no info() record is without its event, except the    *)
(* one whose push is in progress.                                            *)
InfoIds == {n \in 0..(Len(logBuffer) - 1) : logBuffer[n + 1] = Info}
LogsNotified ==
  LET infos == InfoIds IN
  /\ \A k \in 1..Len(pushed) :
       pushed[k].type = "LOG" => \E n \in infos : pushed[k] = LogEvent(n)
  /\ \A j, k \in 1..Len(pushed) :
       j < k /\ pushed[j].type = "LOG" /\ pushed[k].type = "LOG"
         => pushed[j].content[2] < pushed[k].content[2]
  /\ \A n \in infos : \/ \E k \in 1..Len(pushed) : pushed[k] = LogEvent(n)
                      \/ push # "none" /\ item = LogEvent(n)

(* One event is dispatched per pass and logs beget no logs, so dispatching   *)
(* goes on while an event is left: every pushed event is in the end offered  *)
(* to every subscriber, whatever came before it.                             *)
EveryPushDispatched == []<>(head = Len(pushed)) \/ []<><<Pop>>_vars

-----------------------------------------------------------------------------
(* architecture.md:67-68, "Push "PIN_TRIGGER" Event" then "Dispatch Event":  *)
(* an interrupt's event is in the queue until it is dispatched.              *)
TriggersReachQueue ==
  \A n \in 0..(triggers - 1) : \E i \in 1..tail : mem[i] = PinEvent(n)
=============================================================================
