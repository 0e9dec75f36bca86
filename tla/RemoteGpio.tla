----------------------------- MODULE RemoteGpio -----------------------------
(***************************************************************************)
(* GpioRemoteService and GpioFactory: pins driven by clients over a        *)
(* websocket, and the watchdog that puts them back to their defaults when  *)
(* no client pings.                                                        *)
(*                                                                         *)
(* Messages and the watchdog run in the loop task.  A message is a command *)
(* and a batch of operations; the first operation that fails dereferences  *)
(* a null pointer or throws, and takes the device down.  Operation "a" is  *)
(* left out: it names GpioFactory::pinAlloc, which does not exist.         *)
(***************************************************************************)
EXTENDS Integers, Sequences

CONSTANTS
  Pins,        \* pin numbers; the pin table is ordered by them
  Chans,       \* PWM channels
  Values,      \* duty cycles
  Cycles,      \* what a client may set resetCycles to
  Messages,    \* what clients send
  IntHalf,     \* half the range of cyclesCount, 2^31
  MaxSilence   \* bound: no loop after so many of them without a ping

NoDefault == -1

(* "type" 1 is a PWM pin; every other pin is a GpioPin, which drives nothing. *)
Confs ==
  [pwm : BOOLEAN, chan : Chans, default : Values \cup {NoDefault}]

(* The pin table: a function on the pins that were assigned. *)
Tables == UNION {[P -> Confs] : P \in SUBSET Pins}

(* The keys of a batch are pin numbers; a key that is no number throws. *)
NotANumber == 0
Ops == {"read", "write", "free", "dump", "other", "missing"}
PinOps == [pin : Pins \cup {NotANumber}, op : Ops, val : Values, conf : Confs]

ASSUME RemoteGpioAssumption ==
  /\ Pins \subseteq Nat \ {NotANumber}
  /\ Values \subseteq Nat /\ 0 \in Values
  /\ Cycles \subseteq Nat
  /\ Messages \subseteq
       [cmd : {"ping", "config", "null"}, resetCycles : Cycles, batch : Seq(PinOps)]
  /\ IntHalf \in Nat \ {0} /\ \A c \in Cycles : c < IntHalf
  /\ MaxSilence \in Nat

VARIABLES
  pins,         \* GpioFactory::pins
  duty,         \* hardware: the duty cycle of each channel
  resetCycles,  \* GpioRemoteService::resetCycles
  cyclesCount,  \* GpioRemoteService::cyclesCount
  todo,         \* what is left of the batch being extracted
  up,           \* FALSE after a crash, until the device has restarted
  unfed,        \* history: loops since the last ping
  silent,       \* history: loops since the last message
  assigned,     \* history: the pins assigned since the start, freed or not
  sound         \* history: the last message keeps to what Sound asks for

vars == <<pins, duty, resetCycles, cyclesCount, todo, up, unfed, silent, assigned, sound>>

TypeOK ==
  /\ pins \in Tables
  /\ duty \in [Chans -> Values]
  /\ resetCycles \in Cycles \cup {0}
  /\ cyclesCount \in -IntHalf..(IntHalf - 1)
  /\ todo \in Seq(PinOps)
  /\ up \in BOOLEAN
  /\ unfed \in 0..MaxSilence
  /\ silent \in 0..unfed
  /\ assigned \subseteq Pins
  /\ sound \in BOOLEAN

Init ==
  /\ pins = << >>
  /\ duty = [c \in Chans |-> 0]
  /\ resetCycles = 0 /\ cyclesCount = 0
  /\ todo = << >>
  /\ up = TRUE
  /\ unfed = 0 /\ silent = 0
  /\ assigned = {} /\ sound = TRUE

Idle == up /\ todo = << >>

-----------------------------------------------------------------------------
(* The write of a pin: only a PWM pin has one that reaches the hardware. *)
Written(d, conf, val) == IF conf.pwm THEN [d EXCEPT ![conf.chan] = val] ELSE d

Resettable(p) ==
  /\ p \in DOMAIN pins
  /\ pins[p].pwm /\ pins[p].default # NoDefault

(* resetPinsDefaults goes through the table in order, so of several pins on  *)
(* a channel the last one counts.                                            *)
LastOn(c, p) ==
  /\ Resettable(p) /\ pins[p].chan = c
  /\ \A q \in Pins : Resettable(q) /\ pins[q].chan = c => q <= p

(* Seeded fault: the first one counts. *)
ResetPinsDefaultsFirst ==
  duty' = [c \in Chans |->
            IF \E p \in Pins : LastOn(c, p)
            THEN pins[CHOOSE p \in Pins : Resettable(p) /\ pins[p].chan = c].default
            ELSE duty[c]]

ResetPinsDefaults ==
  duty' = [c \in Chans |->
            IF \E p \in Pins : LastOn(c, p)
            THEN pins[CHOOSE p \in Pins : LastOn(c, p)].default
            ELSE duty[c]]

(* Seeded fault: an integer without bounds. *)
IncrementUnbounded(n) == n + 1

Increment(n) == IF n = IntHalf - 1 THEN -IntHalf ELSE n + 1

(* Seeded fault: the last cycle is not waited for. *)
KeepStateStrict == resetCycles = 0 \/ cyclesCount < resetCycles

KeepState == resetCycles = 0 \/ cyclesCount <= resetCycles

(* GpioRemoteService::loop *)
Loop ==
  /\ Idle /\ unfed < MaxSilence
  /\ IF KeepState
     THEN cyclesCount' = Increment(cyclesCount) /\ UNCHANGED duty
     ELSE ResetPinsDefaults /\ UNCHANGED cyclesCount
  /\ unfed' = unfed + 1 /\ silent' = silent + 1
  /\ UNCHANGED <<pins, resetCycles, todo, up, assigned, sound>>

Command(m) ==
  /\ IF m.cmd = "ping" THEN cyclesCount' = 0 /\ unfed' = 0
                       ELSE UNCHANGED <<cyclesCount, unfed>>
  /\ resetCycles' = IF m.cmd = "config" THEN m.resetCycles ELSE resetCycles

(* A batch of a careful client: its keys are numbers, it names an operation  *)
(* for each of them that can be done, and it reads and writes pins that were *)
(* assigned, in this batch or before it.                                     *)
Sound(b, known) ==
  \A i \in 1..Len(b) :
    /\ b[i].pin # NotANumber
    /\ b[i].op \notin {"dump", "missing"}
    /\ b[i].op \in {"read", "write"} =>
         \/ b[i].pin \in known
         \/ \E j \in 1..(i - 1) : b[j].op = "other" /\ b[j].pin = b[i].pin

(* extractMsg up to the batch *)
ExtractMsg ==
  /\ Idle
  /\ \E m \in Messages : Command(m) /\ todo' = m.batch /\ sound' = Sound(m.batch, assigned)
  /\ silent' = 0
  /\ UNCHANGED <<pins, duty, up, assigned>>

-----------------------------------------------------------------------------
(* One turn of the loop over the batch. *)
Turn == up /\ todo # << >>
op == Head(todo)
Proceed == todo' = Tail(todo) /\ UNCHANGED <<resetCycles, cyclesCount, up, unfed, silent, sound>>

(* pinFind returns no instance. *)
Missing == op.pin \notin DOMAIN pins

(* A null instance has no read and no write; no pin can be dumped, since     *)
(* the dump is a string made of NULL; and an operation that is not there is  *)
(* a null pointer that the switch reads.                                     *)
Faults ==
  \/ op.pin = NotANumber
  \/ op.op \in {"dump", "missing"}
  \/ op.op \in {"read", "write"} /\ Missing

PinFault ==
  /\ Turn /\ Faults
  /\ up' = FALSE
  /\ todo' = << >>
  /\ UNCHANGED <<pins, duty, resetCycles, cyclesCount, unfed, silent, assigned, sound>>

(* No pin is read: the answer is -1. *)
PinRead ==
  /\ Turn /\ ~Faults
  /\ op.op = "read"
  /\ Proceed
  /\ UNCHANGED <<pins, duty, assigned>>

(* Seeded fault: pinFree destroys the pin, as its comment has it.            *)
PinFreeErases ==
  /\ Turn /\ ~Faults
  /\ op.op = "free"
  /\ pins' = [p \in DOMAIN pins \ {op.pin} |-> pins[p]]
  /\ Proceed
  /\ UNCHANGED <<duty, assigned>>

(* pinFree is still to be written: a pin that is freed stays in the table.   *)
PinFree ==
  /\ Turn /\ ~Faults
  /\ op.op = "free"
  /\ Proceed
  /\ UNCHANGED <<pins, duty, assigned>>

PinWrite ==
  /\ Turn /\ ~Faults
  /\ op.op = "write"
  /\ duty' = Written(duty, pins[op.pin], op.val)
  /\ Proceed
  /\ UNCHANGED <<pins, assigned>>

PinAssign(p, conf) ==
  pins' = [q \in DOMAIN pins \cup {p} |-> IF q \in DOMAIN pins THEN pins[q] ELSE conf]

(* Any other letter, and the empty operation.  autoMode does nothing. *)
PinAuto ==
  /\ Turn /\ ~Faults
  /\ op.op = "other"
  /\ PinAssign(op.pin, op.conf)
  /\ assigned' = assigned \cup {op.pin}
  /\ Proceed
  /\ UNCHANGED duty

(* The restart after a crash. *)
Restart ==
  /\ ~up
  /\ pins' = << >>
  /\ duty' = [c \in Chans |-> 0]
  /\ resetCycles' = 0 /\ cyclesCount' = 0
  /\ todo' = << >>
  /\ up' = TRUE
  /\ unfed' = 0 /\ silent' = 0
  /\ assigned' = {} /\ sound' = TRUE

Next ==
  \/ Loop \/ ExtractMsg
  \/ PinFault \/ PinRead \/ PinFree \/ PinWrite \/ PinAuto
  \/ Restart

Spec == Init /\ [][Next]_vars

-----------------------------------------------------------------------------
(* RemoteGpioService.h:35-37: pins are maintained in state for resetCycles   *)
(* loops after a ping.  Whoever changes an output without a message has      *)
(* waited for longer than that since the last ping, however often the        *)
(* client changed resetCycles in between, and never if it is 0.              *)
NoEarlyReset ==
  [][duty' # duty /\ todo = << >> /\ up => resetCycles # 0 /\ unfed > resetCycles]_vars

(* RemoteGpioService.h:121-123: when clients say nothing any more, every     *)
(* channel is back at the default of a pin on it, whatever the clients wrote *)
(* before, at the latest two loops after resetCycles.  Unless the counter    *)
(* has overflowed since the last ping: then it takes half its range longer.  *)
SilentMeansDefault ==
  Idle /\ resetCycles # 0 /\ silent >= resetCycles + 2 /\ unfed < IntHalf =>
    \A c \in Chans : \A p \in Pins : LastOn(c, p) => duty[c] = pins[p].default

(* RemoteGpioService.h:201-265: a batch dereferences whatever pinFind found  *)
(* and reads operations that may not be there.  A device goes down only over *)
(* a message that is not sound: a pin that any message assigned since the    *)
(* start can be read and written from then on, whatever came in between, the *)
(* operation that frees it included.                                         *)
SoundIsSafe == ~up => ~sound
=============================================================================
