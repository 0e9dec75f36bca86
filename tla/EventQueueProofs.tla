-------------------------- MODULE EventQueueProofs --------------------------
(***************************************************************************)
(* Proofs about the event queue, for every choice of the subscribers, of   *)
(* the logs they write and of the bounds.                                  *)
(***************************************************************************)
EXTENDS EventQueue, SequenceTheorems, TLAPS

(* The shape of the storage: there is always a slot past the queue, and the  *)
(* slot a push writes to exists.  What is being pushed is an event.          *)
Shape ==
  /\ tail < Len(mem)
  /\ push \in {"type", "content", "store"} => reg < Len(mem)
  /\ push # "none" => item \in Events

TypeInv == TypeOK /\ Shape

-----------------------------------------------------------------------------
(* Making room never changes a slot that exists, and leaves a free one. *)
LEMMA ReachProperties ==
  ASSUME NEW m \in Seq(SlotContents), NEW n \in Nat, n <= Len(m)
  PROVE  /\ Reach(m, n) \in Seq(SlotContents)
         /\ n < Len(Reach(m, n))
         /\ Len(m) <= Len(Reach(m, n))
         /\ \A i \in 1..Len(m) : Reach(m, n)[i] = m[i]
<1>1. Raw \in SlotContents
  BY DEF Raw, SlotContents
<1>2. CASE Len(m) > n
  BY <1>2 DEF Reach
<1>3. CASE ~(Len(m) > n)
  <2>1. Reach(m, n) = Append(m, Raw)
    BY <1>3 DEF Reach
  <2> QED
    BY <1>1, <1>3, <2>1, AppendProperties
<1> QED
  BY <1>2, <1>3

(* Writing one field, or a whole event, in an existing slot. *)
LEMMA WriteProperties ==
  ASSUME NEW m \in Seq(SlotContents), NEW k \in 1..Len(m), NEW c \in SlotContents
  PROVE  /\ [m EXCEPT ![k] = c] \in Seq(SlotContents)
         /\ Len([m EXCEPT ![k] = c]) = Len(m)
         /\ \A j \in 1..Len(m) : [m EXCEPT ![k] = c][j] = IF j = k THEN c ELSE m[j]
  BY ExceptSeq

LEMMA EventsAreContents ==
  /\ Events \subseteq SlotContents
  /\ \A n \in Nat : LogEvent(n) \in Events /\ PinEvent(n) \in Events
  BY DEF Events, SlotContents, LogEvent, PinEvent, Contents

-----------------------------------------------------------------------------
LEMMA InitTypeInv == Init => TypeInv
<1> SUFFICES ASSUME Init PROVE TypeInv
  OBVIOUS
<1>1. Raw \in SlotContents
  BY DEF Raw, SlotContents
<1>2. mem \in Seq(SlotContents) /\ Len(mem) = 1
  BY <1>1 DEF Init
<1>3. << >> \in Seq(Levels) /\ << >> \in Seq(Events) /\ << >> \in Seq(SlotContents)
  OBVIOUS
<1>4. got \in [Handlers -> Seq(SlotContents)]
  BY <1>3 DEF Init
<1>5. TypeOK
  <2>1. evt \in SlotContents /\ item \in SlotContents /\ mem \in Seq(SlotContents)
    BY <1>1, <1>2 DEF Init
  <2>2. head \in Nat /\ tail \in Nat /\ reg \in Nat /\ triggers \in Nat /\ pos \in Nat \ {0}
    BY DEF Init
  <2>3. logsDue \in Seq(Levels) /\ logBuffer \in Seq(Levels) /\ pushed \in Seq(Events)
    BY <1>3 DEF Init
  <2> QED
    BY <1>4, <2>1, <2>2, <2>3 DEF Init, TypeOK
<1>6. Shape
  BY <1>2 DEF Init, Shape
<1> QED
  BY <1>5, <1>6 DEF TypeInv

LEMMA NextTypeInv == TypeInv /\ [Next]_vars => TypeInv'
<1> SUFFICES ASSUME TypeInv, [Next]_vars PROVE TypeInv'
  OBVIOUS
<1> USE DEF TypeInv
<1>1. CASE AddLog
  <2>1. Head(logsDue) \in Levels /\ Tail(logsDue) \in Seq(Levels)
    BY <1>1, HeadTailProperties DEF AddLog, TypeOK
  <2>2. Len(logBuffer) \in Nat /\ Append(logBuffer, Head(logsDue)) \in Seq(Levels)
    BY <2>1, AppendProperties, LenProperties DEF TypeOK
  <2>3. item' \in SlotContents /\ push' \in {"none", "address"} /\ (push' # "none" => item' \in Events)
    BY <1>1, <2>2, EventsAreContents DEF AddLog, TypeOK
  <2> QED
    BY <1>1, <2>1, <2>2, <2>3 DEF AddLog, TypeOK, Shape, queueVars, loopVars
<1>2. CASE PushAddress
  BY <1>2 DEF PushAddress, TypeOK, Shape, queueVars, loopVars, logVars
<1>3. CASE PushType
  <2> DEFINE c == [mem[reg + 1] EXCEPT !.type = item.type]
  <2>1. reg + 1 \in 1..Len(mem) /\ item \in Events
    BY <1>3, LenProperties DEF PushType, TypeOK, Shape
  <2>2. mem[reg + 1] \in SlotContents
    BY <2>1, ElementOfSeq DEF TypeOK
  <2>3. c \in SlotContents
    BY <2>1, <2>2 DEF SlotContents, Events
  <2>4. mem' = [mem EXCEPT ![reg + 1] = c]
    BY <1>3 DEF PushType
  <2>5. mem' \in Seq(SlotContents) /\ Len(mem') = Len(mem)
    BY <2>1, <2>3, <2>4, WriteProperties DEF TypeOK
  <2> QED
    BY <1>3, <2>1, <2>5 DEF PushType, TypeOK, Shape, loopVars, logVars
<1>4. CASE PushContent
  <2> DEFINE c == [mem[reg + 1] EXCEPT !.content = item.content]
  <2>1. reg + 1 \in 1..Len(mem) /\ item \in Events
    BY <1>4, LenProperties DEF PushContent, TypeOK, Shape
  <2>2. mem[reg + 1] \in SlotContents
    BY <2>1, ElementOfSeq DEF TypeOK
  <2>3. c \in SlotContents
    BY <2>1, <2>2 DEF SlotContents, Events
  <2>4. mem' = [mem EXCEPT ![reg + 1] = c]
    BY <1>4 DEF PushContent
  <2>5. mem' \in Seq(SlotContents) /\ Len(mem') = Len(mem)
    BY <2>1, <2>3, <2>4, WriteProperties DEF TypeOK
  <2> QED
    BY <1>4, <2>1, <2>5 DEF PushContent, TypeOK, Shape, loopVars, logVars
<1>5. CASE PushLoad
  BY <1>5 DEF PushLoad, TypeOK, Shape, queueVars, loopVars, logVars
<1>6. CASE PushStore
  <2>1. tail' \in Nat /\ tail' <= Len(mem) /\ item \in Events
    BY <1>6, LenProperties DEF PushStore, TypeOK, Shape
  <2>2. mem' \in Seq(SlotContents) /\ tail' < Len(mem')
    BY <1>6, <2>1, ReachProperties DEF PushStore, TypeOK
  <2>3. pushed' \in Seq(Events)
    BY <1>6, <2>1, AppendProperties DEF PushStore, TypeOK
  <2> QED
    BY <1>6, <2>1, <2>2, <2>3 DEF PushStore, TypeOK, Shape, loopVars, logVars
<1>7. CASE Interrupt
  <2> DEFINE m == [mem EXCEPT ![tail + 1] = PinEvent(triggers)]
  <2>1. tail + 1 \in 1..Len(mem) /\ tail + 1 \in Nat /\ Len(mem) \in Nat
    BY LenProperties DEF TypeOK, Shape
  <2>2. PinEvent(triggers) \in Events /\ PinEvent(triggers) \in SlotContents
    BY EventsAreContents DEF TypeOK
  <2>3. m \in Seq(SlotContents) /\ Len(m) = Len(mem)
    BY <2>1, <2>2, WriteProperties DEF TypeOK
  <2>4. mem' \in Seq(SlotContents) /\ tail' = tail + 1 /\ tail' < Len(mem') /\ Len(mem) <= Len(mem')
    <3>1. mem' = Reach(m, tail + 1) /\ tail' = tail + 1
      BY <1>7 DEF Interrupt, PinInterrupt
    <3> HIDE DEF m
    <3> QED
      BY <2>1, <2>3, <3>1, ReachProperties
  <2>5. pushed' \in Seq(Events)
    BY <1>7, <2>2, AppendProperties DEF Interrupt, PinInterrupt, TypeOK
  <2>6. Len(mem') \in Nat
    BY <2>4, LenProperties
  <2> QED
    BY <1>7, <2>1, <2>4, <2>5, <2>6
    DEF Interrupt, PinInterrupt, TypeOK, Shape, loopVars, pushVars, logVars
<1>8. CASE Services
  <2>1. logsDue' \in Seq(Levels)
    BY <1>8, ConstantsAssumption DEF Services
  <2> QED
    BY <1>8, <2>1 DEF Services, TypeOK, Shape, queueVars, pushVars
<1>9. CASE WatchEmpty
  BY <1>9 DEF WatchEmpty, TypeOK, Shape, queueVars, pushVars, logVars
<1>10. CASE WatchFront
  <2>1. head + 1 \in 1..Len(mem) /\ \A k \in 1..head : k \in 1..Len(mem)
    BY <1>10, LenProperties DEF WatchFront, Size, TypeOK, Shape
  <2>2. evt' \in SlotContents
    <3>1. mem[head + 1] \in SlotContents /\ \A k \in 1..head : mem[k] \in SlotContents
      BY <2>1, ElementOfSeq DEF TypeOK
    <3>2. evt' \in FrontReads
      BY <1>10 DEF WatchFront
    <3> QED
      BY <3>1, <3>2 DEF FrontReads
  <2> QED
    <3>1. phase' = "dispatch" /\ pos' = 1 /\ dispatched' = FALSE
      BY <1>10 DEF WatchFront
    <3>2. UNCHANGED <<mem, head, tail, push, item, reg, logsDue, logBuffer, triggers, pushed, got>>
      BY <1>10 DEF WatchFront, queueVars, pushVars, logVars
    <3>3. TypeOK'
      <4>1. phase' \in {"services", "watch", "dispatch", "panic"} /\ pos' \in Nat \ {0} /\ dispatched' \in BOOLEAN
        <5>1. pos' \in Nat \ {0}
          BY <3>1
        <5>2. phase' \in {"services", "watch", "dispatch", "panic"}
          BY <3>1
        <5>3. dispatched' \in BOOLEAN
          BY <3>1
        <5> QED
          BY <5>1, <5>2, <5>3
      <4> QED
        BY <2>2, <3>2, <4>1 DEF TypeOK
    <3>4. Shape'
      BY <3>2 DEF Shape
    <3> QED
      BY <3>3, <3>4
<1>11. CASE RawFault
  BY <1>11 DEF RawFault, TypeOK, Shape, queueVars, pushVars, logVars
<1>12. CASE Dispatch
  <2> DEFINE h == Subscribers[pos]
  <2>1. pos \in 1..Len(Subscribers)
    BY <1>12, ConstantsAssumption, LenProperties DEF Dispatch, TypeOK
  <2>2. h \in Handlers
    BY <2>1, ElementOfSeq, ConstantsAssumption
  <2>3. got' \in [Handlers -> Seq(SlotContents)] /\ dispatched' \in BOOLEAN /\ logsDue' \in Seq(Levels)
    <3>1. CASE Matches(h, evt)
      <4>1. got' = [got EXCEPT ![h] = Append(got[h], evt)] /\ dispatched' = TRUE /\ logsDue' \in HandlerLogs[h]
        BY <1>12, <3>1 DEF Dispatch
      <4>2. Append(got[h], evt) \in Seq(SlotContents)
        BY <2>2, AppendProperties DEF TypeOK
      <4> QED
        BY <2>2, <4>1, <4>2, ConstantsAssumption DEF TypeOK
    <3>2. CASE ~Matches(h, evt)
      BY <1>12, <3>2 DEF Dispatch, TypeOK
    <3> QED
      BY <3>1, <3>2
  <2> QED
    BY <1>12, <2>3 DEF Dispatch, TypeOK, Shape, queueVars, pushVars
<1>13. CASE Pop
  <2>1. logBuffer' \in Seq(Levels)
    BY <1>13, AppendProperties DEF Pop, TypeOK, Levels
  <2> QED
    BY <1>13, <2>1 DEF Pop, TypeOK, Shape, pushVars
<1>14. CASE UNCHANGED vars
  BY <1>14 DEF vars, queueVars, loopVars, pushVars, logVars, TypeOK, Shape
<1> QED
  BY <1>1, <1>2, <1>3, <1>4, <1>5, <1>6, <1>7, <1>8, <1>9, <1>10, <1>11, <1>12, <1>13, <1>14
  DEF Next, LoopTask

(* TypeOK holds wherever the interrupts land.                                *)
THEOREM TypeCorrect == Spec => []TypeOK
<1>1. TypeInv => TypeOK
  BY DEF TypeInv
<1> QED
  BY InitTypeInv, NextTypeInv, <1>1, PTL DEF Spec

-----------------------------------------------------------------------------
(***************************************************************************)
(* When no interrupt lands inside the loop task's push, the slots of the   *)
(* queue are exactly the completed pushes.  The invariant says what the    *)
(* free slot and the loaded pointer hold at each step of a push, and that  *)
(* the event being dispatched is still the front of the queue.             *)
(***************************************************************************)
QueueInv ==
  /\ tail = Len(pushed)
  /\ \A i \in 1..tail : mem[i] = pushed[i]
  /\ InPush => reg = tail
  /\ push \in {"content", "load", "store"} => mem[tail + 1].type = item.type
  /\ push \in {"load", "store"} => mem[tail + 1].content = item.content
  /\ head <= tail
  /\ phase = "dispatch" => head < tail /\ evt = pushed[head + 1]

LEMMA QuietNextIsNext == [QuietNext]_vars => [Next]_vars
  BY DEF QuietNext, Next

LEMMA InitQueueInv == Init => QueueInv
  BY DEF Init, QueueInv, InPush

(* Two records of the queue with the same parts are the same event. *)
LEMMA SameParts ==
  ASSUME NEW a \in SlotContents, NEW b \in Events,
         a.type = b.type, a.content = b.content
  PROVE  a = b
  BY DEF SlotContents, Events

LEMMA NextQueueInv == TypeInv /\ QueueInv /\ [QuietNext]_vars => QueueInv'
<1> SUFFICES ASSUME TypeInv, QueueInv, [QuietNext]_vars PROVE QueueInv'
  OBVIOUS
<1>0. /\ Len(mem) \in Nat /\ Len(pushed) \in Nat /\ tail \in Nat /\ head \in Nat /\ reg \in Nat
      /\ mem \in Seq(SlotContents) /\ pushed \in Seq(Events) /\ tail < Len(mem)
  BY LenProperties DEF TypeInv, TypeOK, Shape
<1>1. CASE AddLog
  BY <1>1 DEF AddLog, QueueInv, InPush, queueVars, loopVars
<1>2. CASE PushAddress
  BY <1>2 DEF PushAddress, QueueInv, InPush, queueVars, loopVars
<1>3. CASE PushType
  <2> DEFINE c == [mem[tail + 1] EXCEPT !.type = item.type]
  <2>1. reg = tail /\ tail + 1 \in 1..Len(mem) /\ item \in Events
    BY <1>0, <1>3 DEF PushType, QueueInv, InPush, TypeInv, Shape
  <2>2. mem[tail + 1] \in SlotContents
    BY <1>0, <2>1, ElementOfSeq
  <2>3. c \in SlotContents /\ c.type = item.type
    BY <2>1, <2>2 DEF SlotContents, Events
  <2>4. mem' = [mem EXCEPT ![tail + 1] = c]
    BY <1>3, <2>1 DEF PushType
  <2>5. mem'[tail + 1] = c /\ \A i \in 1..tail : mem'[i] = mem[i]
    <3> HIDE DEF c
    <3> QED
      BY <1>0, <2>1, <2>3, <2>4, WriteProperties
  <2>6. UNCHANGED <<head, tail, phase, evt, item, reg, pushed>> /\ push' = "content"
    BY <1>3 DEF PushType, loopVars
  <2> QED
    BY <1>0, <1>3, <2>1, <2>3, <2>5, <2>6 DEF QueueInv, InPush, PushType
<1>4. CASE PushContent
  <2> DEFINE c == [mem[tail + 1] EXCEPT !.content = item.content]
  <2>1. reg = tail /\ tail + 1 \in 1..Len(mem) /\ item \in Events
    BY <1>0, <1>4 DEF PushContent, QueueInv, InPush, TypeInv, Shape
  <2>2. mem[tail + 1] \in SlotContents /\ mem[tail + 1].type = item.type
    BY <1>0, <1>4, <2>1, ElementOfSeq DEF PushContent, QueueInv
  <2>3. c \in SlotContents /\ c.type = item.type /\ c.content = item.content
    BY <2>1, <2>2 DEF SlotContents, Events
  <2>4. mem' = [mem EXCEPT ![tail + 1] = c]
    BY <1>4, <2>1 DEF PushContent
  <2>5. mem'[tail + 1] = c /\ \A i \in 1..tail : mem'[i] = mem[i]
    <3> HIDE DEF c
    <3> QED
      BY <1>0, <2>1, <2>3, <2>4, WriteProperties
  <2>6. UNCHANGED <<head, tail, phase, evt, item, reg, pushed>> /\ push' = "load"
    BY <1>4 DEF PushContent, loopVars
  <2> QED
    BY <1>0, <1>4, <2>1, <2>3, <2>5, <2>6 DEF QueueInv, InPush, PushContent
<1>5. CASE PushLoad
  BY <1>5 DEF PushLoad, QueueInv, InPush, queueVars, loopVars
<1>6. CASE PushStore
  <2>1. reg = tail /\ item \in Events /\ tail + 1 \in 1..Len(mem)
    BY <1>0, <1>6 DEF PushStore, QueueInv, InPush, TypeInv, Shape
  <2>2. mem[tail + 1] = item
    <3>1. mem[tail + 1] \in SlotContents
      BY <1>0, <2>1, ElementOfSeq
    <3> QED
      BY <1>6, <2>1, <3>1, SameParts DEF PushStore, QueueInv
  <2>3. tail' = tail + 1 /\ push' = "none" /\ pushed' = Append(pushed, item) /\ UNCHANGED <<head, phase, evt>>
    BY <1>6, <2>1 DEF PushStore, loopVars
  <2>4. Len(pushed') = tail' /\ pushed'[tail + 1] = item /\ \A i \in 1..tail : pushed'[i] = pushed[i]
    BY <1>0, <2>1, <2>3, AppendProperties DEF QueueInv
  <2>5. \A i \in 1..Len(mem) : mem'[i] = mem[i]
    BY <1>0, <1>6, <2>1, <2>3, ReachProperties DEF PushStore
  <2>6. \A i \in 1..tail' : mem'[i] = pushed'[i]
    BY <1>0, <2>1, <2>2, <2>3, <2>4, <2>5 DEF QueueInv
  <2>7. phase' = "dispatch" => head' < tail' /\ evt' = pushed'[head' + 1]
    BY <1>0, <2>3, <2>4 DEF QueueInv
  <2> QED
    BY <1>0, <2>3, <2>4, <2>6, <2>7 DEF QueueInv, InPush
<1>7. CASE ~InPush /\ Interrupt
  <2> DEFINE e == PinEvent(triggers)
             m == [mem EXCEPT ![tail + 1] = e]
  <2>1. e \in Events /\ e \in SlotContents /\ tail + 1 \in 1..Len(mem)
    BY <1>0, EventsAreContents DEF TypeInv, TypeOK
  <2>2. mem' = Reach(m, tail + 1) /\ tail' = tail + 1 /\ pushed' = Append(pushed, e)
        /\ UNCHANGED <<head, phase, evt, push, reg>>
    BY <1>7 DEF Interrupt, PinInterrupt, loopVars, pushVars
  <2> HIDE DEF e
  <2>3. m \in Seq(SlotContents) /\ Len(m) = Len(mem) /\ m[tail + 1] = e
        /\ \A i \in 1..tail : m[i] = mem[i]
    BY <1>0, <2>1, WriteProperties
  <2> HIDE DEF m
  <2>4. \A i \in 1..Len(m) : mem'[i] = m[i]
    <3>1. tail + 1 \in Nat /\ tail + 1 <= Len(m)
      BY <1>0, <2>1, <2>3
    <3> QED
      BY <2>2, <2>3, <3>1, ReachProperties
  <2>5. Len(pushed') = tail' /\ pushed'[tail + 1] = e /\ \A i \in 1..tail : pushed'[i] = pushed[i]
    BY <1>0, <2>1, <2>2, AppendProperties DEF QueueInv
  <2>6. \A i \in 1..tail' : mem'[i] = pushed'[i]
    BY <1>0, <2>1, <2>2, <2>3, <2>4, <2>5 DEF QueueInv
  <2>7. push' \in {"none", "address"}
    BY <1>7, <2>2 DEF InPush, TypeInv, TypeOK
  <2>8. phase' = "dispatch" => head' < tail' /\ evt' = pushed'[head' + 1]
    BY <1>0, <2>2, <2>5 DEF QueueInv
  <2> QED
    BY <1>0, <2>2, <2>5, <2>6, <2>7, <2>8 DEF QueueInv, InPush
<1>8. CASE Services
  BY <1>8 DEF Services, Ready, QueueInv, InPush, queueVars, pushVars
<1>9. CASE WatchEmpty
  BY <1>9 DEF WatchEmpty, QueueInv, InPush, queueVars, pushVars
<1>10. CASE WatchFront
  <2>1. head + 1 \in 1..tail
    BY <1>0, <1>10 DEF WatchFront, Size
  <2>2. evt' = pushed[head + 1]
    <3>1. pushed[head + 1] \in Events /\ mem[head + 1] = pushed[head + 1]
      BY <1>0, <2>1, ElementOfSeq DEF QueueInv
    <3>2. mem[head + 1] # Raw
      BY <3>1 DEF Events, Raw
    <3> QED
      BY <1>10, <3>1, <3>2 DEF WatchFront, FrontReads
  <2>3. UNCHANGED <<mem, head, tail, push, item, reg, pushed>>
    BY <1>10 DEF WatchFront, queueVars, pushVars
  <2> QED
    BY <1>0, <2>1, <2>2, <2>3 DEF QueueInv, InPush
<1>11. CASE Dispatch
  BY <1>11 DEF Dispatch, QueueInv, InPush, queueVars, pushVars
<1>12. CASE Pop
  BY <1>0, <1>12 DEF Pop, Ready, QueueInv, InPush, pushVars
<1>13. CASE UNCHANGED vars
  BY <1>13 DEF vars, queueVars, loopVars, pushVars, QueueInv, InPush
<1> QED
  BY <1>1, <1>2, <1>3, <1>4, <1>5, <1>6, <1>7, <1>8, <1>9, <1>10, <1>11, <1>12, <1>13
  DEF QuietNext, LoopTask

(* The invariants of the quiet executions, together. *)
LEMMA QuietInvariants == QuietSpec => [](TypeInv /\ QueueInv)
<1>1. Init => TypeInv /\ QueueInv
  BY InitTypeInv, InitQueueInv
<1>2. TypeInv /\ QueueInv /\ [QuietNext]_vars => (TypeInv /\ QueueInv)'
  BY QuietNextIsNext, NextTypeInv, NextQueueInv
<1> QED
  BY <1>1, <1>2, PTL DEF QuietSpec

(* No event is lost, altered or reordered in EventQueue::local as long as no *)
(* interrupt lands inside a push of the loop task: interrupts during the     *)
(* size test, the copy of the front, a dispatch or a pop are harmless.       *)
THEOREM QuietQueueIsPushed == QuietSpec => []QueueIsPushed
<1>1. QueueInv => QueueIsPushed
  BY DEF QueueInv, QueueIsPushed
<1> QED
  BY QuietInvariants, <1>1, PTL

-----------------------------------------------------------------------------
(***************************************************************************)
(* The quiet executions keep the promise of EventBus.  Offered moves only  *)
(* with the loop of dispatchEvt: entering it and popping leave it alone.   *)
(***************************************************************************)
LEMMA OfferedOfPhase ==
  ASSUME phase # "dispatch"
  PROVE  Offered = [h \in Handlers |-> head]
  BY DEF Offered

LEMMA OfferedUnchanged ==
  ASSUME UNCHANGED <<phase, pos, head>>
  PROVE  Offered' = Offered
  BY DEF Offered

(* Every handler has a place in Subscribers, so none was offered the event  *)
(* before the first iteration.                                              *)
LEMMA OfferedAtFirst ==
  ASSUME phase = "dispatch", pos = 1
  PROVE  Offered = [h \in Handlers |-> head]
  BY ConstantsAssumption DEF Offered

(* After the last iteration all of them were. *)
LEMMA OfferedAtLast ==
  ASSUME phase = "dispatch", pos \in Nat, pos > Len(Subscribers)
  PROVE  Offered = [h \in Handlers |-> head + 1]
<1>1. \A i \in pos..Len(Subscribers) : FALSE
  BY ConstantsAssumption, LenProperties
<1> QED
  BY <1>1 DEF Offered

LEMMA StepKeepsPromise ==
  TypeInv /\ QueueInv /\ QueueInv' /\ [QuietNext]_vars => [Bus!Next]_(Bus!busVars)
<1> SUFFICES ASSUME TypeInv, QueueInv, QueueInv', [QuietNext]_vars
             PROVE  [Bus!Next]_(Bus!busVars)
  OBVIOUS
<1>0. /\ Len(mem) \in Nat /\ Len(pushed) \in Nat /\ tail \in Nat /\ head \in Nat /\ pos \in Nat
      /\ Len(Subscribers) \in Nat /\ pushed \in Seq(Events)
  BY LenProperties, ConstantsAssumption DEF TypeInv, TypeOK
<1>1. ASSUME NEW e \in Events, pushed' = Append(pushed, e), UNCHANGED <<phase, pos, head, got>>
      PROVE  Bus!Publish
  <2>1. Offered' = Offered
    BY <1>1, OfferedUnchanged
  <2>2. Len(pushed') = Len(pushed) + 1 /\ \A i \in 1..Len(pushed) : pushed'[i] = pushed[i]
    BY <1>0, <1>1, AppendProperties
  <2> QED
    BY <1>1, <2>1, <2>2 DEF Bus!Publish
<1>2. CASE PushStore
  <2>1. item \in Events
    BY <1>2 DEF PushStore, TypeInv, Shape
  <2>2. pushed' = Append(pushed, item) /\ UNCHANGED <<phase, pos, head, got>>
    BY <1>2 DEF PushStore, loopVars
  <2> QED
    BY <1>1, <2>1, <2>2 DEF Bus!Next
<1>3. CASE ~InPush /\ Interrupt
  <2>1. PinEvent(triggers) \in Events
    BY EventsAreContents DEF TypeInv, TypeOK
  <2>2. pushed' = Append(pushed, PinEvent(triggers)) /\ UNCHANGED <<phase, pos, head, got>>
    BY <1>3 DEF Interrupt, PinInterrupt, loopVars
  <2> QED
    BY <1>1, <2>1, <2>2 DEF Bus!Next
<1>4. ASSUME UNCHANGED <<phase, pos, head, pushed, got>>
      PROVE  UNCHANGED Bus!busVars
  BY <1>4, OfferedUnchanged DEF Bus!busVars
<1>5. ASSUME phase # "dispatch", phase' # "dispatch", UNCHANGED <<head, pushed, got>>
      PROVE  UNCHANGED Bus!busVars
  <2>1. Offered = [h \in Handlers |-> head]
    BY <1>5, OfferedOfPhase
  <2>2. Offered' = [h \in Handlers |-> head']
    BY <1>5 DEF Offered
  <2> QED
    BY <1>5, <2>1, <2>2 DEF Bus!busVars
<1>6. CASE AddLog \/ PushAddress \/ PushType \/ PushContent \/ PushLoad \/ UNCHANGED vars
  BY <1>4, <1>6
  DEF AddLog, PushAddress, PushType, PushContent, PushLoad, vars, queueVars, loopVars
<1>7. CASE Services \/ WatchEmpty
  BY <1>5, <1>7 DEF Services, WatchEmpty, Ready, queueVars
<1>8. CASE WatchFront
  <2>1. Offered = [h \in Handlers |-> head]
    BY <1>8, OfferedOfPhase DEF WatchFront, Ready
  <2>2. Offered' = [h \in Handlers |-> head']
    BY <1>8, ConstantsAssumption DEF WatchFront, Offered
  <2> QED
    BY <1>8, <2>1, <2>2 DEF WatchFront, queueVars, Bus!busVars
<1>9. CASE Pop
  <2>1. Offered = [h \in Handlers |-> head + 1]
    BY <1>0, <1>9, OfferedAtLast DEF Pop, Ready
  <2>2. Offered' = [h \in Handlers |-> head']
    BY <1>9 DEF Pop, Offered
  <2> QED
    BY <1>9, <2>1, <2>2 DEF Pop, Bus!busVars
<1>10. CASE Dispatch
  <2> DEFINE h == Subscribers[pos]
  <2>1. pos \in 1..Len(Subscribers) /\ h \in Handlers /\ phase = "dispatch" /\ phase' = "dispatch"
        /\ pos' = pos + 1 /\ UNCHANGED <<head, pushed>>
    <3>1. pos \in 1..Len(Subscribers)
      BY <1>0, <1>10 DEF Dispatch, TypeInv, TypeOK
    <3> QED
      BY <1>10, <3>1, ElementOfSeq, ConstantsAssumption DEF Dispatch, Ready, queueVars
  <2>2. Offered[h] = head /\ Offered'[h] = head + 1
    <3>1. Offered[h] = head
      BY <1>0, <2>1 DEF Offered
    <3>2. \A i \in pos'..Len(Subscribers) : Subscribers[i] # h
      BY <1>0, <2>1, ConstantsAssumption
    <3> QED
      BY <2>1, <3>1, <3>2 DEF Offered
  <2>3. \A g \in Handlers : g # h => Offered'[g] = Offered[g]
    <3> SUFFICES ASSUME NEW g \in Handlers, g # h PROVE Offered'[g] = Offered[g]
      OBVIOUS
    <3>1. (\A i \in pos..Len(Subscribers) : Subscribers[i] # g)
            <=> (\A i \in pos'..Len(Subscribers) : Subscribers[i] # g)
      BY <1>0, <2>1
    <3> QED
      BY <2>1, <3>1 DEF Offered
  <2>4. Offered' = [Offered EXCEPT ![h] = @ + 1]
    <3>1. Offered = [g \in Handlers |-> Offered[g]] /\ Offered' = [g \in Handlers |-> Offered'[g]]
      BY DEF Offered
    <3> QED
      BY <2>1, <2>2, <2>3, <3>1
  <2>5. head < Len(pushed) /\ evt = pushed[head + 1]
    BY <2>1 DEF QueueInv
  <2>6. got' = IF Bus!IsFor(evt, h) THEN [got EXCEPT ![h] = Append(@, evt)] ELSE got
    BY <1>10 DEF Dispatch, Matches, Bus!IsFor
  <2>7. Bus!Consume(h)
    BY <2>1, <2>2, <2>4, <2>5, <2>6 DEF Bus!Consume
  <2> QED
    BY <2>1, <2>7 DEF Bus!Next
<1> QED
  BY <1>2, <1>3, <1>6, <1>7, <1>8, <1>9, <1>10 DEF QuietNext, LoopTask

(* Every subscriber is called with every pushed event it listens for, once,  *)
(* in push order, as long as no interrupt lands inside a push: the queue,    *)
(* the three-step loop pass and dispatchEvt implement EventBus.              *)
THEOREM QuietKeepsBusPromise == QuietSpec => KeepsBusPromise
<1>1. Init => Bus!Init
  BY DEF Init, Bus!Init, Offered
<1>2. QuietSpec => Init /\ [][QuietNext]_vars
  BY DEF QuietSpec
<1> QED
  BY <1>1, <1>2, QuietInvariants, StepKeepsPromise, PTL DEF KeepsBusPromise, Bus!Spec
-----------------------------------------------------------------------------
(* Logs and their events.  The record whose push is in progress is younger   *)
(* than every record whose event was pushed, so pushing it keeps the order.  *)
Notified ==
  /\ \A k \in 1..Len(pushed) :
       pushed[k].type = "LOG" => \E n \in InfoIds : pushed[k] = LogEvent(n)
  /\ \A j, k \in 1..Len(pushed) : \A m, n \in InfoIds :
       j < k /\ pushed[j] = LogEvent(m) /\ pushed[k] = LogEvent(n) => m < n
  /\ \A n \in InfoIds : \/ \E k \in 1..Len(pushed) : pushed[k] = LogEvent(n)
                        \/ push # "none" /\ item = LogEvent(n)

Pushing(n) ==
  /\ item = LogEvent(n)
  /\ \A k \in 1..Len(pushed) : \A m \in InfoIds : pushed[k] = LogEvent(m) => m < n

LogInv == Notified /\ (push # "none" => \E n \in InfoIds : Pushing(n))

LEMMA EventsDiffer ==
  /\ \A m, n \in Nat : LogEvent(m) = LogEvent(n) => m = n
  /\ \A m, n \in Nat : LogEvent(m) # PinEvent(n)
  /\ \A n \in Nat : /\ LogEvent(n).type = "LOG" /\ PinEvent(n).type # "LOG"
                    /\ LogEvent(n).content[2] = n
  BY DEF LogEvent, PinEvent

LEMMA InfoIdsAre == TypeInv => InfoIds \subseteq Nat /\ \A n \in InfoIds : n < Len(logBuffer)
  BY LenProperties DEF InfoIds, TypeInv, TypeOK

(* A record more is an id more, when it is notified. *)
LEMMA InfoIdsGrow ==
  ASSUME TypeInv, NEW l \in Levels, logBuffer' = Append(logBuffer, l)
  PROVE  InfoIds' = IF l = Info THEN InfoIds \cup {Len(logBuffer)} ELSE InfoIds
<1>1. Len(logBuffer) \in Nat /\ Len(logBuffer') = Len(logBuffer) + 1
  BY LenProperties, AppendProperties DEF TypeInv, TypeOK
<1>2. \A n \in 0..(Len(logBuffer) - 1) : logBuffer'[n + 1] = logBuffer[n + 1]
  BY <1>1, AppendProperties DEF TypeInv, TypeOK
<1>3. logBuffer'[Len(logBuffer) + 1] = l
  BY AppendProperties DEF TypeInv, TypeOK
<1> QED
  BY <1>1, <1>2, <1>3 DEF InfoIds

(* A step that pushes nothing, and starts and ends no push, keeps LogInv,    *)
(* whether or not it leaves a record that bypasses the queue.                *)
LEMMA LogInvStays ==
  ASSUME LogInv, InfoIds' = InfoIds, UNCHANGED <<pushed, item>>, push' = "none" <=> push = "none"
  PROVE  LogInv'
<1>1. pushed' = pushed /\ item' = item
  OBVIOUS
<1>2. Notified'
  BY <1>1, Zenon DEF LogInv, Notified, LogEvent
<1>3. \A n : Pushing(n) => Pushing(n)'
  BY <1>1 DEF Pushing, LogEvent
<1>4. push' # "none" => \E n \in InfoIds' : Pushing(n)'
  BY <1>3 DEF LogInv
<1> QED
  BY <1>2, <1>4 DEF LogInv

LEMMA AddLogKeepsLogInv ==
  ASSUME TypeInv, LogInv, AddLog
  PROVE  LogInv'
<1>1. Head(logsDue) \in Levels
  BY HeadTailProperties DEF TypeInv, TypeOK, AddLog
<1>2. logBuffer' = Append(logBuffer, Head(logsDue)) /\ push = "none" /\ pushed' = pushed
  BY DEF AddLog
<1>3. CASE Head(logsDue) # Info
  <2>1. InfoIds' = InfoIds
    BY <1>1, <1>2, <1>3, InfoIdsGrow
  <2> QED
    BY <1>3, <2>1, LogInvStays DEF AddLog
<1>4. CASE Head(logsDue) = Info
  <2>0. PICK new \in Nat : new = Len(logBuffer)
    BY LenProperties DEF TypeInv, TypeOK
  <2>1. InfoIds' = InfoIds \cup {new}
    BY <1>1, <1>2, <1>4, <2>0, InfoIdsGrow
  <2>2. item' = LogEvent(new) /\ push' # "none"
    BY <1>4, <2>0 DEF AddLog
  <2>3. new \in Nat /\ InfoIds \subseteq Nat /\ \A n \in InfoIds : n < new
    BY <2>0, InfoIdsAre
  <2>4. \A k \in 1..Len(pushed) : \A m \in InfoIds' : pushed[k] = LogEvent(m) => m \in InfoIds
    <3> SUFFICES ASSUME NEW k \in 1..Len(pushed), NEW m \in InfoIds', pushed[k] = LogEvent(m)
                 PROVE  m \in InfoIds
      OBVIOUS
    <3>1. m \in Nat
      BY <2>1, <2>3
    <3>2. pushed[k].type = "LOG"
      BY <3>1, EventsDiffer
    <3>3. PICK n \in InfoIds : pushed[k] = LogEvent(n)
      BY <3>2 DEF LogInv, Notified
    <3> QED
      BY <2>3, <3>1, <3>3, EventsDiffer
  <2>5. Pushing(new)'
    BY <1>2, <2>2, <2>3, <2>4 DEF Pushing, LogEvent
  <2>6. \A k \in 1..Len(pushed') :
          pushed'[k].type = "LOG" => \E n \in InfoIds' : pushed'[k] = LogEvent(n)
    BY <1>2, <2>1 DEF LogInv, Notified
  <2>7. \A j, k \in 1..Len(pushed') : \A m, n \in InfoIds' :
          j < k /\ pushed'[j] = LogEvent(m) /\ pushed'[k] = LogEvent(n) => m < n
    <3>1. \A j, k \in 1..Len(pushed) : \A m, n \in InfoIds :
            j < k /\ pushed[j] = LogEvent(m) /\ pushed[k] = LogEvent(n) => m < n
      BY DEF LogInv, Notified
    <3> QED
      BY <1>2, <2>4, <3>1
  <2>8. \A n \in InfoIds' : \/ \E k \in 1..Len(pushed') : pushed'[k] = LogEvent(n)
                            \/ push' # "none" /\ item' = LogEvent(n)
    BY <1>2, <2>1, <2>2 DEF LogInv, Notified
  <2>9. Notified'
    BY <2>6, <2>7, <2>8 DEF Notified, LogEvent
  <2> QED
    BY <2>1, <2>5, <2>9 DEF LogInv
<1> QED
  BY <1>3, <1>4

(* The end of a push of the loop task, and an interrupt's push.              *)
LEMMA PushKeepsLogInv ==
  ASSUME TypeInv, LogInv, PushStore \/ Interrupt
  PROVE  LogInv'
<1> PICK e \in Events : /\ pushed' = Append(pushed, e)
                        /\ \/ PushStore /\ e = item
                           \/ Interrupt /\ e = PinEvent(triggers)
  BY EventsAreContents DEF PushStore, Interrupt, PinInterrupt, TypeInv, TypeOK, Shape
<1> DEFINE last == Len(pushed) + 1
<1>1. /\ Len(pushed) \in Nat /\ Len(pushed') = last /\ pushed'[last] = e
      /\ \A k \in 1..Len(pushed) : pushed'[k] = pushed[k]
  BY AppendProperties, LenProperties DEF TypeInv, TypeOK
<1>2. InfoIds' = InfoIds /\ InfoIds \subseteq Nat
  BY InfoIdsAre DEF InfoIds, PushStore, Interrupt, PinInterrupt, logVars
<1>3. \A k \in 1..last : k = last \/ k \in 1..Len(pushed)
  BY <1>1
<1>4. CASE PushStore /\ e = item
  <2>1. PICK new \in InfoIds : Pushing(new)
    BY <1>4 DEF PushStore, LogInv
  <2>2. e = LogEvent(new) /\ \A k \in 1..Len(pushed) : \A m \in InfoIds : pushed[k] = LogEvent(m) => m < new
    BY <1>4, <2>1 DEF Pushing
  <2>3. \A k \in 1..last : pushed'[k].type = "LOG" => \E n \in InfoIds : pushed'[k] = LogEvent(n)
    BY <1>1, <1>3, <2>2 DEF LogInv, Notified
  <2>4. \A j, k \in 1..last : \A m, n \in InfoIds :
          j < k /\ pushed'[j] = LogEvent(m) /\ pushed'[k] = LogEvent(n) => m < n
    <3> SUFFICES ASSUME NEW j \in 1..last, NEW k \in 1..last, NEW m \in InfoIds, NEW n \in InfoIds,
                        j < k, pushed'[j] = LogEvent(m), pushed'[k] = LogEvent(n)
                 PROVE  m < n
      OBVIOUS
    <3>1. j \in 1..Len(pushed) /\ pushed[j] = LogEvent(m)
      BY <1>1
    <3>2. CASE k = last
      <4>1. n = new
        BY <1>1, <1>2, <2>2, <3>2, EventsDiffer
      <4> QED
        BY <2>2, <3>1, <4>1
    <3>3. CASE k \in 1..Len(pushed)
      BY <1>1, <3>1, <3>3 DEF LogInv, Notified
    <3> QED
      BY <1>3, <3>2, <3>3
  <2>5. \A n \in InfoIds : \E k \in 1..last : pushed'[k] = LogEvent(n)
    <3> SUFFICES ASSUME NEW n \in InfoIds PROVE \E k \in 1..last : pushed'[k] = LogEvent(n)
      OBVIOUS
    <3>1. CASE \E k \in 1..Len(pushed) : pushed[k] = LogEvent(n)
      BY <1>1, <3>1
    <3>2. CASE item = LogEvent(n)
      BY <1>1, <1>4, <3>2
    <3> QED
      BY <3>1, <3>2 DEF LogInv, Notified
  <2>6. push' = "none"
    BY <1>4 DEF PushStore
  <2> HIDE DEF last
  <2> QED
    BY <1>1, <1>2, <2>3, <2>4, <2>5, <2>6 DEF LogInv, Notified, LogEvent
<1>5. CASE Interrupt /\ e = PinEvent(triggers)
  <2>1. e.type # "LOG" /\ \A n \in InfoIds : e # LogEvent(n)
    BY <1>2, <1>5, EventsDiffer DEF TypeInv, TypeOK
  <2>2. UNCHANGED <<push, item>>
    BY <1>5 DEF Interrupt, PinInterrupt, pushVars
  <2>3. \A k \in 1..last : \A n \in InfoIds :
          pushed'[k] = LogEvent(n) <=> k \in 1..Len(pushed) /\ pushed[k] = LogEvent(n)
    BY <1>1, <1>3, <2>1
  <2>4. \A k \in 1..last : pushed'[k].type = "LOG" => \E n \in InfoIds : pushed'[k] = LogEvent(n)
    BY <1>1, <1>3, <2>1 DEF LogInv, Notified
  <2>5. \A j, k \in 1..last : \A m, n \in InfoIds :
          j < k /\ pushed'[j] = LogEvent(m) /\ pushed'[k] = LogEvent(n) => m < n
    BY <2>3 DEF LogInv, Notified
  <2>6. \A n \in InfoIds : \/ \E k \in 1..last : pushed'[k] = LogEvent(n)
                           \/ push' # "none" /\ item' = LogEvent(n)
    BY <1>1, <2>2 DEF LogInv, Notified
  <2>7. \A n : Pushing(n) => Pushing(n)'
    BY <1>1, <1>2, <2>2, <2>3 DEF Pushing, LogEvent
  <2> HIDE DEF last
  <2> QED
    BY <1>1, <1>2, <2>2, <2>4, <2>5, <2>6, <2>7 DEF LogInv, Notified, LogEvent
<1> QED
  BY <1>4, <1>5

LEMMA NextLogInv == TypeInv /\ LogInv /\ [Next]_vars => LogInv'
<1> SUFFICES ASSUME TypeInv, LogInv, [Next]_vars PROVE LogInv'
  OBVIOUS
<1>1. CASE AddLog
  BY <1>1, AddLogKeepsLogInv
<1>2. CASE PushStore \/ Interrupt
  BY <1>2, PushKeepsLogInv
<1>3. CASE PushAddress \/ PushType \/ PushContent \/ PushLoad
  <2>1. UNCHANGED <<logBuffer, pushed, item>> /\ push # "none" /\ push' # "none"
    BY <1>3 DEF PushAddress, PushType, PushContent, PushLoad, logVars
  <2> QED
    BY <2>1, LogInvStays DEF InfoIds
<1>4. CASE Services \/ WatchEmpty \/ WatchFront \/ RawFault \/ Dispatch
  <2>1. UNCHANGED <<logBuffer, pushed, item, push>>
    BY <1>4 DEF Services, WatchEmpty, WatchFront, RawFault, Dispatch, pushVars, logVars
  <2> QED
    BY <2>1, LogInvStays DEF InfoIds
<1>5. CASE Pop
  <2>1. UNCHANGED <<pushed, item, push>>
    BY <1>5 DEF Pop, pushVars
  <2>2. InfoIds' = InfoIds
    <3>1. CASE dispatched
      BY <1>5, <3>1 DEF Pop, InfoIds
    <3>2. CASE ~dispatched
      BY <1>5, <3>2, InfoIdsGrow DEF Pop, Levels, Info, Dbg
    <3> QED
      BY <3>1, <3>2
  <2> QED
    BY <2>1, <2>2, LogInvStays
<1>6. CASE UNCHANGED vars
  BY <1>6, LogInvStays DEF vars, InfoIds, pushVars, logVars
<1> QED
  BY <1>1, <1>2, <1>3, <1>4, <1>5, <1>6 DEF Next, LoopTask

LEMMA InitLogInv == Init => LogInv
  BY DEF Init, LogInv, Notified, InfoIds

LEMMA NotifiedMeansInOrder ==
  ASSUME TypeInv, LogInv
  PROVE  LogsNotified
<1>1. Notified /\ InfoIds \subseteq Nat
  BY InfoIdsAre DEF LogInv
<1>2. ASSUME NEW j \in 1..Len(pushed), NEW k \in 1..Len(pushed), j < k,
             pushed[j].type = "LOG", pushed[k].type = "LOG"
      PROVE  pushed[j].content[2] < pushed[k].content[2]
  <2>1. PICK m \in InfoIds : pushed[j] = LogEvent(m)
    BY <1>1, <1>2 DEF Notified
  <2>2. PICK n \in InfoIds : pushed[k] = LogEvent(n)
    BY <1>1, <1>2 DEF Notified
  <2>3. m < n
    BY <1>1, <1>2, <2>1, <2>2 DEF Notified
  <2> QED
    BY <1>1, <2>1, <2>2, <2>3, EventsDiffer
<1> QED
  BY <1>1, <1>2 DEF LogsNotified, Notified

(* LogStore.cpp:14-20: wherever interrupts land, every info record becomes   *)
(* one event, in the order of the records, and no dbg record does.           *)
THEOREM InfoLogsAreNotified == Spec => []LogsNotified
<1>1. Init => TypeInv /\ LogInv
  BY InitTypeInv, InitLogInv
<1>2. TypeInv /\ LogInv /\ [Next]_vars => (TypeInv /\ LogInv)'
  BY NextTypeInv, NextLogInv
<1>3. TypeInv /\ LogInv => LogsNotified
  BY NotifiedMeansInOrder
<1> QED
  BY <1>1, <1>2, <1>3, PTL DEF Spec

=============================================================================
